---------------------------- MODULE Spec2Model ----------------------------
(***************************************************************************)
(* A model of lopdf-table: text wrapping (src/src/text.rs), table          *)
(* validation (src/src/table.rs), layout (src/src/layout.rs) and the       *)
(* draw entry points with pagination (src/src/lib.rs, src/src/drawing.rs). *)
(*                                                                         *)
(* Representation.  A Rust String is a sequence of characters; every       *)
(* character has a UTF-8 byte length (ByteLen), and the byte offsets the   *)
(* code computes (char_indices, split_at) are computed from those lengths. *)
(* f32 lengths are exact numbers: integers where the code only adds,       *)
(* subtracts and compares, and normalised fractions [n, d] for the column  *)
(* widths, where the code divides.                                         *)
(***************************************************************************)
EXTENDS Integers, Sequences, FiniteSets, TLC

VARIABLES
    pc,                    \* position of the running call
    op,                    \* the entry point that was called
    table,                 \* the caller's Table
    start_x,               \* position.0 of the draw call
    start_y,               \* position.1 of the draw call
    hooked,                \* TRUE when a TaggedCellHook was supplied
    layout,                \* Result<TableLayout> of calculate_layout
    result,                \* what the entry point returned
    doc,                   \* the Document: its pages and their contents
    hook_calls,            \* the begin_cell / end_cell invocations so far
    row_idx,               \* draw_table_paginated: loop index
    current_y,             \* draw_table_paginated: vertical cursor
    rows_on_current_page,  \* draw_table_paginated: accumulated row group
    page_ids,              \* draw_table_paginated: pages used so far
    paged,                 \* the PagedTableResult returned, if any
    wrap_in,               \* arguments of a wrap_text call
    wrap_out,              \* the lines a wrap_text call returned
    registry,              \* the ImageXObjects of register_all_images
    registered,            \* the payloads registered and names returned
    ops_in,                \* a Vec<Operation> to be flattened
    flat,                  \* the flat Vec<Object> made from it
    ops_out                \* what objects_to_operations made of that

vars == <<pc, op, table, start_x, start_y, hooked, layout, result, doc,
          hook_calls,
          row_idx, current_y, rows_on_current_page, page_ids, paged,
          wrap_in, wrap_out, registry, registered, ops_in, flat, ops_out>>

\* Option<T>: None, or Some(x)
None == <<>>
Some(x) == <<x>>
Unwrap(o) == o[1]

-----------------------------------------------------------------------------
(* Bounds of the model *)

MaxTextLen == 4        \* characters in an enumerated text
MaxWrapChars == 3      \* widest wrap budget, in heuristic characters
MaxCols == 3           \* columns of a table with width specs
MaxRows == 2           \* rows of a table whose shape is enumerated
MaxCells == 2          \* cells of a row whose shape is enumerated

-----------------------------------------------------------------------------
(* Program constants *)

A4_HEIGHT == 842
LETTER_WIDTH == 612
DEFAULT_MARGIN == 50
MIN_COLUMN_WIDTH == 20
DEFAULT_PADDING == 5
DEFAULT_FONT_SIZE == 10

\* DEFAULT_CHAR_WIDTH_RATIO = 0.5 and DEFAULT_LINE_HEIGHT_MULTIPLIER = 1.2,
\* as numerator and denominator.
CHAR_WIDTH_RATIO_NUM == 1
CHAR_WIDTH_RATIO_DEN == 2
LINE_HEIGHT_NUM == 6
LINE_HEIGHT_DEN == 5

-----------------------------------------------------------------------------
(* Sequences *)

Max(a, b) == IF a >= b THEN a ELSE b
Min(a, b) == IF a <= b THEN a ELSE b

RECURSIVE SumSeq(_)
SumSeq(s) == IF s = <<>> THEN 0 ELSE Head(s) + SumSeq(Tail(s))

RECURSIVE Concat(_)
Concat(ss) == IF ss = <<>> THEN <<>> ELSE Head(ss) \o Concat(Tail(ss))

RECURSIVE SeqsUpTo(_, _)
SeqsUpTo(S, n) ==
    IF n = 0 THEN {<<>>}
    ELSE LET shorter == SeqsUpTo(S, n - 1)
         IN  shorter \cup {Append(s, x) : s \in shorter, x \in S}

RECURSIVE SeqsOfLen(_, _)
SeqsOfLen(S, n) ==
    IF n = 0 THEN {<<>>}
    ELSE {Append(s, x) : s \in SeqsOfLen(S, n - 1), x \in S}

-----------------------------------------------------------------------------
(* Characters and strings *)

SP == "_"     \* U+0020 SPACE
NL == "/"     \* U+000A LINE FEED
BROKEN == "?" \* a fragment of a code point cut in two

\* "A", "B": one-byte letters; "E": U+00E9, two bytes; "Z": U+200B ZERO WIDTH
\* SPACE, three bytes, not White_Space, with a zero advance in most fonts.
Letters == {"A", "B", "E", "Z"}

ByteLen(c) == CASE c = "E" -> 2 [] c = "Z" -> 3 [] OTHER -> 1

\* char::is_whitespace
IsWhitespace(c) == c \in {SP, NL}

\* str::len: the length in bytes
RECURSIVE StrLen(_)
StrLen(s) == IF s = <<>> THEN 0 ELSE ByteLen(Head(s)) + StrLen(Tail(s))

\* str::chars().count()
CharsCount(s) == Len(s)

\* str::char_indices().nth(n).map(|(idx, _)| idx): the byte offset at which
\* character n (from 0) starts, None when the string has no such character.
CharIndicesNth(s, n) ==
    IF n < Len(s) THEN Some(StrLen(SubSeq(s, 1, n))) ELSE None

\* str::split_at(mid), mid a byte offset.  Rust panics when mid is not on a
\* character boundary; the model marks the code point that would be cut.
SplitAt(s, mid) ==
    IF \E k \in 0..Len(s) : StrLen(SubSeq(s, 1, k)) = mid
    THEN LET k == CHOOSE k \in 0..Len(s) : StrLen(SubSeq(s, 1, k)) = mid
         IN  <<SubSeq(s, 1, k), SubSeq(s, k + 1, Len(s))>>
    ELSE LET k == CHOOSE k \in 0..Len(s) :
                    /\ StrLen(SubSeq(s, 1, k)) < mid
                    /\ \A j \in 0..Len(s) :
                         StrLen(SubSeq(s, 1, j)) < mid => j <= k
         IN  <<Append(SubSeq(s, 1, k), BROKEN),
               <<BROKEN>> \o SubSeq(s, k + 2, Len(s))>>

\* str::split('\n')
RECURSIVE SplitNewline(_)
SplitNewline(s) ==
    IF \A i \in 1..Len(s) : s[i] # NL THEN <<s>>
    ELSE LET i == CHOOSE i \in 1..Len(s) :
                    s[i] = NL /\ \A j \in 1..(i - 1) : s[j] # NL
         IN  <<SubSeq(s, 1, i - 1)>> \o SplitNewline(SubSeq(s, i + 1, Len(s)))

\* str::trim
RECURSIVE TrimStart(_)
TrimStart(s) ==
    IF s # <<>> /\ IsWhitespace(Head(s)) THEN TrimStart(Tail(s)) ELSE s

RECURSIVE TrimEnd(_)
TrimEnd(s) ==
    IF s # <<>> /\ IsWhitespace(s[Len(s)])
    THEN TrimEnd(SubSeq(s, 1, Len(s) - 1)) ELSE s

Trim(s) == TrimEnd(TrimStart(s))

\* str::split_whitespace: the maximal runs of non-whitespace characters
RECURSIVE SplitWhitespace(_)
SplitWhitespace(s) ==
    LET t == TrimStart(s)
    IN  IF t = <<>> THEN <<>>
        ELSE IF \A i \in 1..Len(t) : ~IsWhitespace(t[i]) THEN <<t>>
        ELSE LET i == CHOOSE i \in 1..Len(t) :
                        IsWhitespace(t[i])
                        /\ \A j \in 1..(i - 1) : ~IsWhitespace(t[j])
             IN  <<SubSeq(t, 1, i - 1)>>
                 \o SplitWhitespace(SubSeq(t, i + 1, Len(t)))

-----------------------------------------------------------------------------
(* src/src/text.rs: wrap_text *)

\* (max_width / char_width) as usize, char_width = font_size * 0.5.  The cast
\* truncates and sends a negative quotient to 0.  font_size > 0 throughout.
MaxCharsPerLine(max_width, font_size) ==
    LET num == max_width * CHAR_WIDTH_RATIO_DEN
        den == font_size * CHAR_WIDTH_RATIO_NUM
    IN  IF num <= 0 THEN 0 ELSE num \div den

\* The byte offset at which an over-long word is cut.
HardSplitByte(remaining, max_chars_per_line) ==
    LET nth == CharIndicesNth(remaining, max_chars_per_line)
    IN  IF nth = None THEN StrLen(remaining) ELSE Unwrap(nth)

\* The loop that breaks an over-long word: <<chunks pushed, remaining>>.
RECURSIVE HardSplit(_, _)
HardSplit(remaining, max_chars_per_line) ==
    IF CharsCount(remaining) > max_chars_per_line
    THEN LET parts == SplitAt(remaining,
                              HardSplitByte(remaining, max_chars_per_line))
             rec == HardSplit(parts[2], max_chars_per_line)
         IN  <<<<parts[1]>> \o rec[1], rec[2]>>
    ELSE <<<<>>, remaining>>

\* One iteration of `for word in words`.  st is the loop state:
\* all_lines (of this segment), current_line, current_length.
WrapWord(st, word, max_chars_per_line) ==
    LET word_length == CharsCount(word)
        placed ==
            IF st.len > 0 /\ st.len + 1 + word_length > max_chars_per_line
            THEN [lines |-> Append(st.lines, Trim(st.cur)),
                  cur |-> word, len |-> word_length]
            ELSE [lines |-> st.lines,
                  cur |-> (IF st.cur # <<>> THEN Append(st.cur, SP)
                           ELSE st.cur) \o word,
                  len |-> (IF st.cur # <<>> THEN st.len + 1 ELSE st.len)
                          + word_length]
    IN  IF word_length > max_chars_per_line
        THEN LET hs == HardSplit(word, max_chars_per_line)
             IN  IF hs[2] # <<>>
                 THEN [lines |-> placed.lines \o hs[1], cur |-> hs[2],
                       len |-> CharsCount(hs[2])]
                 ELSE [placed EXCEPT !.lines = placed.lines \o hs[1]]
        ELSE placed

RECURSIVE WrapWords(_, _, _)
WrapWords(st, words, max_chars_per_line) ==
    IF words = <<>> THEN st
    ELSE WrapWords(WrapWord(st, Head(words), max_chars_per_line),
                   Tail(words), max_chars_per_line)

\* After the words: a current line that is not blank is pushed, trimmed
PushLastLine(st) ==
    IF Trim(st.cur) # <<>> THEN Append(st.lines, Trim(st.cur)) ELSE st.lines

\* The lines of a segment's words; a segment of whitespace is one empty line
WrapSegmentWords(words, max_chars_per_line) ==
    IF words = <<>> THEN << <<>> >>
    ELSE PushLastLine(WrapWords([lines |-> <<>>, cur |-> <<>>, len |-> 0],
                                words, max_chars_per_line))

\* The lines one segment of the text contributes.
WrapSegment(segment, max_chars_per_line) ==
    IF segment = <<>> THEN << <<>> >>
    ELSE WrapSegmentWords(SplitWhitespace(segment), max_chars_per_line)

RECURSIVE WrapSegments(_, _)
WrapSegments(segments, max_chars_per_line) ==
    IF segments = <<>> THEN <<>>
    ELSE WrapSegment(Head(segments), max_chars_per_line)
         \o WrapSegments(Tail(segments), max_chars_per_line)

\* `if all_lines.is_empty() { vec![String::new()] } else { all_lines }`
AtLeastOneLine(all_lines) ==
    IF all_lines = <<>> THEN << <<>> >> ELSE all_lines

WrapText(text, max_width, font_size) ==
    IF text = <<>> THEN << <<>> >>
    ELSE IF MaxCharsPerLine(max_width, font_size) = 0 THEN <<text>>
    ELSE AtLeastOneLine(WrapSegments(SplitNewline(text),
                            MaxCharsPerLine(max_width, font_size)))

\* calculate_wrapped_text_height, as a multiple of 1 / LINE_HEIGHT_DEN
WrappedTextHeightNum(text, max_width, font_size) ==
    Len(WrapText(text, max_width, font_size)) * font_size * LINE_HEIGHT_NUM

-----------------------------------------------------------------------------
(* src/src/font.rs: FontMetrics, as TtfFontMetrics implements it.  A metrics
   value is [units_per_em, advance, glyph_index]: advance[c] is the glyph's
   horizontal advance and glyph_index[c] its glyph id, None when the font
   has no glyph for c. *)

CharWidth(metrics, ch, font_size) ==
    IF ch \in DOMAIN metrics.advance /\ metrics.advance[ch] # None
    THEN (Unwrap(metrics.advance[ch]) * font_size) \div metrics.units_per_em
    ELSE (font_size * CHAR_WIDTH_RATIO_NUM) \div CHAR_WIDTH_RATIO_DEN

RECURSIVE TextWidth(_, _, _)
TextWidth(metrics, text, font_size) ==
    IF text = <<>> THEN 0
    ELSE CharWidth(metrics, Head(text), font_size)
         + TextWidth(metrics, Tail(text), font_size)

\* face.glyph_index(ch).map(|g| g.0).unwrap_or(0)
GlyphId(metrics, ch) ==
    IF ch \in DOMAIN metrics.glyph_index /\ metrics.glyph_index[ch] # None
    THEN Unwrap(metrics.glyph_index[ch])
    ELSE 0

\* u16::to_be_bytes
ToBeBytes(glyph_id) == <<(glyph_id \div 256) % 256, glyph_id % 256>>

\* encode_text: the glyph id of every character as two big-endian bytes
RECURSIVE EncodeText(_, _)
EncodeText(metrics, text) ==
    IF text = <<>> THEN <<>>
    ELSE ToBeBytes(GlyphId(metrics, Head(text)))
         \o EncodeText(metrics, Tail(text))

-----------------------------------------------------------------------------
(* src/src/text.rs: wrap_text_with_metrics *)

\* The inner `for (i, ch) in remaining.char_indices()` loop, from character
\* k (from 1) on: the value of split_at_char when the loop ends.
RECURSIVE ScanChunk(_, _, _, _, _, _, _)
ScanChunk(remaining, k, accumulated, split_at_char, max_width, font_size, metrics) ==
    IF k > Len(remaining) THEN split_at_char
    ELSE LET cw == CharWidth(metrics, remaining[k], font_size)
         IN  IF accumulated + cw > max_width /\ split_at_char > 0
             THEN split_at_char
             ELSE ScanChunk(remaining, k + 1, accumulated + cw,
                            StrLen(SubSeq(remaining, 1, k)), max_width,
                            font_size, metrics)

MetricsSplitByte(remaining, max_width, font_size, metrics) ==
    LET scanned == ScanChunk(remaining, 1, 0, 0, max_width, font_size, metrics)
        nth == CharIndicesNth(remaining, 1)
    IN  IF scanned = 0
        THEN (IF nth = None THEN StrLen(remaining) ELSE Unwrap(nth))
        ELSE scanned

\* The `while !remaining.is_empty()` loop: <<chunks pushed, last chunk,
\* whether a last chunk was assigned to current_line>>.
RECURSIVE MetricsHardSplit(_, _, _, _)
MetricsHardSplit(remaining, max_width, font_size, metrics) ==
    IF remaining = <<>> THEN <<<<>>, <<>>, FALSE>>
    ELSE LET parts == SplitAt(remaining,
                        MetricsSplitByte(remaining, max_width, font_size,
                                         metrics))
         IN  IF parts[2] = <<>> THEN <<<<>>, parts[1], TRUE>>
             ELSE LET rec == MetricsHardSplit(parts[2], max_width, font_size,
                                              metrics)
                  IN  <<<<parts[1]>> \o rec[1], rec[2], rec[3]>>

\* Whether the word starts a new line: the code tests the measured width of
\* the current line, not whether the line is empty.
MetricsStartsNewLine(current_width, space_width, word_width, max_width) ==
    current_width > 0 /\ current_width + space_width + word_width > max_width

MetricsWrapWord(st, word, max_width, font_size, metrics) ==
    LET space_width == CharWidth(metrics, SP, font_size)
        word_width == TextWidth(metrics, word, font_size)
        placed ==
            IF MetricsStartsNewLine(st.width, space_width, word_width,
                                    max_width)
            THEN [lines |-> Append(st.lines, Trim(st.cur)),
                  cur |-> word, width |-> word_width]
            ELSE [lines |-> st.lines,
                  cur |-> (IF st.cur # <<>> THEN Append(st.cur, SP)
                           ELSE st.cur) \o word,
                  width |-> (IF st.cur # <<>> THEN st.width + space_width
                             ELSE st.width) + word_width]
    IN  IF word_width > max_width
        THEN LET hs == MetricsHardSplit(word, max_width, font_size, metrics)
             IN  IF hs[3]
                 THEN [lines |-> placed.lines \o hs[1], cur |-> hs[2],
                       width |-> TextWidth(metrics, hs[2], font_size)]
                 ELSE [placed EXCEPT !.lines = placed.lines \o hs[1]]
        ELSE placed

RECURSIVE MetricsWrapWords(_, _, _, _, _)
MetricsWrapWords(st, words, max_width, font_size, metrics) ==
    IF words = <<>> THEN st
    ELSE MetricsWrapWords(
             MetricsWrapWord(st, Head(words), max_width, font_size, metrics),
             Tail(words), max_width, font_size, metrics)

MetricsWrapSegmentWords(words, max_width, font_size, metrics) ==
    IF words = <<>> THEN << <<>> >>
    ELSE PushLastLine(MetricsWrapWords(
                          [lines |-> <<>>, cur |-> <<>>, width |-> 0],
                          words, max_width, font_size, metrics))

MetricsWrapSegment(segment, max_width, font_size, metrics) ==
    IF segment = <<>> THEN << <<>> >>
    ELSE MetricsWrapSegmentWords(SplitWhitespace(segment), max_width,
                                 font_size, metrics)

RECURSIVE MetricsWrapSegments(_, _, _, _)
MetricsWrapSegments(segments, max_width, font_size, metrics) ==
    IF segments = <<>> THEN <<>>
    ELSE MetricsWrapSegment(Head(segments), max_width, font_size, metrics)
         \o MetricsWrapSegments(Tail(segments), max_width, font_size, metrics)

WrapTextWithMetrics(text, max_width, font_size, metrics) ==
    IF text = <<>> THEN << <<>> >>
    ELSE AtLeastOneLine(MetricsWrapSegments(SplitNewline(text), max_width,
                                            font_size, metrics))

\* calculate_wrapped_text_height_with_metrics, times LINE_HEIGHT_DEN
WrappedTextHeightWithMetricsNum(text, max_width, font_size, metrics) ==
    Len(WrapTextWithMetrics(text, max_width, font_size, metrics))
    * font_size * LINE_HEIGHT_NUM

-----------------------------------------------------------------------------
(* Exact fractions [n, d], d > 0, in lowest terms, for the f32 widths *)

RECURSIVE Gcd(_, _)
Gcd(a, b) == IF b = 0 THEN a ELSE Gcd(b, a % b)

Abs(a) == IF a < 0 THEN -a ELSE a

Frac(n, d) ==
    LET sn == IF d < 0 THEN -n ELSE n
        sd == Abs(d)
        g == Gcd(Abs(sn), sd)
    IN  [n |-> sn \div g, d |-> sd \div g]

FInt(k) == [n |-> k, d |-> 1]
FAdd(a, b) == Frac(a.n * b.d + b.n * a.d, a.d * b.d)
FSub(a, b) == Frac(a.n * b.d - b.n * a.d, a.d * b.d)
FMul(a, b) == Frac(a.n * b.n, a.d * b.d)
FDiv(a, b) == Frac(a.n * b.d, a.d * b.n)
FLess(a, b) == a.n * b.d < b.n * a.d
FMax(a, b) == IF FLess(a, b) THEN b ELSE a
FFloor(a) == a.n \div a.d

RECURSIVE FSum(_)
FSum(s) == IF s = <<>> THEN FInt(0) ELSE FAdd(Head(s), FSum(Tail(s)))

-----------------------------------------------------------------------------
(* src/src/table.rs: Table, Row, Cell, ColumnWidth

   Table: [rows, style, column_widths, total_width, header_rows,
           font_metrics, bold_font_metrics]
   style: [padding: [top, right, bottom, left], default_font_size,
           page_height, top_margin, bottom_margin, repeat_headers]
   Row:   [cells, height, background_color]
   Cell:  [content, colspan, text_wrap, font_size, bold, background_color,
          border, font_name, embedded_font_resource_name, padding,
          alignment, images]; all but content, colspan, text_wrap and
          images are fields of the cell's style, unset when the cell has no
          style.  border stands for the four border overrides, set alike.
          The vertical alignment of every cell is the default, Middle.
          Row.background_color is the background of the row's style.       *)

Pixels(w) == [kind |-> "Pixels", v |-> w]
Percentage(p) == [kind |-> "Percentage", v |-> p]
Auto == [kind |-> "Auto", v |-> 0]

Ok == [ok |-> TRUE, err |-> "none", why |-> "none"]
Err(kind, why) == [ok |-> FALSE, err |-> kind, why |-> why]

\* c.colspan.max(1)
EffectiveColspan(cell) == Max(cell.colspan, 1)

RECURSIVE Coverage(_)
Coverage(cells) ==
    IF cells = <<>> THEN 0
    ELSE EffectiveColspan(Head(cells)) + Coverage(Tail(cells))

\* Table::column_count
ColumnCount(t) == IF t.rows = <<>> THEN 0 ELSE Coverage(t.rows[1].cells)

RECURSIVE PercentageTotal(_)
PercentageTotal(widths) ==
    IF widths = <<>> THEN 0
    ELSE (IF Head(widths).kind = "Percentage" THEN Head(widths).v ELSE 0)
         + PercentageTotal(Tail(widths))

\* A stricter test, which also rejects a total of exactly 100
PercentagesReach(total_percentage) == total_percentage >= 100

\* The test on the summed Percentage specs
PercentagesExceed(total_percentage) == total_percentage > 100

\* Table::validate
Validate(t) ==
    IF t.rows = <<>> THEN Err("InvalidTable", "Table has no rows")
    ELSE IF \E i \in 1..Len(t.rows) :
                Coverage(t.rows[i].cells) # ColumnCount(t)
    THEN Err("InvalidTable", "Row covers the wrong number of columns")
    ELSE IF t.column_widths = None THEN Ok
    ELSE IF Len(Unwrap(t.column_widths)) # ColumnCount(t)
    THEN Err("InvalidTable", "Column widths array has the wrong length")
    ELSE IF PercentagesExceed(PercentageTotal(Unwrap(t.column_widths)))
    THEN Err("InvalidTable", "Total percentage widths exceed 100%")
    ELSE Ok

-----------------------------------------------------------------------------
(* src/src/layout.rs *)

CellIsBold(cell) == cell.bold

\* metrics_for_cell
MetricsForCell(t, cell) ==
    IF CellIsBold(cell)
    THEN (IF t.bold_font_metrics # None THEN t.bold_font_metrics
          ELSE t.font_metrics)
    ELSE t.font_metrics

\* cell.style.font_size, or the table's default
CellFontSize(t, cell) ==
    IF cell.font_size # None THEN Unwrap(cell.font_size)
    ELSE t.style.default_font_size

\* estimate_text_width: chars * font_size * 0.5
EstimateTextWidth(text, font_size) ==
    (CharsCount(text) * font_size * CHAR_WIDTH_RATIO_NUM)
        \div CHAR_WIDTH_RATIO_DEN

\* The measured or estimated width of a cell's content
CellContentWidth(t, cell) ==
    IF MetricsForCell(t, cell) # None
    THEN TextWidth(Unwrap(MetricsForCell(t, cell)), cell.content,
                   CellFontSize(t, cell))
    ELSE EstimateTextWidth(cell.content, CellFontSize(t, cell))

\* estimate_total_width
EstimateTotalWidth(t) == LETTER_WIDTH - (DEFAULT_MARGIN * 2)

AvailableWidth(t) ==
    IF t.total_width # None THEN Unwrap(t.total_width)
    ELSE EstimateTotalWidth(t)

RECURSIVE MaxOver(_, _)
MaxOver(s, floor) ==
    IF s = <<>> THEN floor ELSE MaxOver(Tail(s), Max(floor, Head(s)))

\* estimate_column_content_width: the cell at index col_idx of every row that
\* has one
EstimateColumnContentWidth(t, col_idx) ==
    LET widths == [r \in 1..Len(t.rows) |->
                     IF col_idx <= Len(t.rows[r].cells)
                     THEN CellContentWidth(t, t.rows[r].cells[col_idx])
                     ELSE 0]
    IN  MaxOver(widths, 0) + t.style.padding.left + t.style.padding.right

\* A remainder that forgets the Percentage columns
RemainingAfterPixels(specs, available_width) ==
    FInt(available_width
           - SumSeq([i \in 1..Len(specs) |->
                       IF specs[i].kind = "Pixels" THEN specs[i].v ELSE 0]))

\* The width left for the Auto columns
RemainingWidth(specs, available_width) ==
    LET total_fixed_width ==
            SumSeq([i \in 1..Len(specs) |->
                      IF specs[i].kind = "Pixels" THEN specs[i].v ELSE 0])
        percentage_width ==
            FMul(FInt(available_width),
                 Frac(PercentageTotal(specs), 100))
    IN  FSub(FSub(FInt(available_width), FInt(total_fixed_width)),
             percentage_width)

\* Second pass: a Percentage column
PercentageWidth(percent, available_width) ==
    FMul(FInt(available_width), Frac(percent, 100))

\* An Auto column that takes an equal share whatever its content
AutoWidthEqualShare(t, specs, col, remaining_width) ==
    LET auto_columns == {i \in 1..Len(specs) : specs[i].kind = "Auto"}
    IN  IF FLess(FInt(0), remaining_width)
        THEN FMax(FDiv(remaining_width, FInt(Cardinality(auto_columns))),
                  FInt(MIN_COLUMN_WIDTH))
        ELSE FInt(MIN_COLUMN_WIDTH)

\* An Auto column that takes the remaining width whatever its sign
AutoWidthUnclamped(t, specs, col, remaining_width) == remaining_width

\* Third pass: an Auto column
AutoWidth(t, specs, col, remaining_width) ==
    LET auto_columns == {i \in 1..Len(specs) : specs[i].kind = "Auto"}
        proportion(i) == EstimateColumnContentWidth(t, i)
        total_proportion ==
            SumSeq([i \in 1..Len(specs) |->
                      IF i \in auto_columns THEN proportion(i) ELSE 0])
    IN  IF FLess(FInt(0), remaining_width)
        THEN FMax(IF total_proportion > 0
                  THEN FMul(remaining_width,
                            Frac(proportion(col), total_proportion))
                  ELSE FDiv(remaining_width,
                            FInt(Cardinality(auto_columns))),
                  FInt(MIN_COLUMN_WIDTH))
        ELSE FInt(MIN_COLUMN_WIDTH)

\* resolve_column_widths
ResolveColumnWidths(specs, available_width, t) ==
    [i \in 1..Len(specs) |->
        CASE specs[i].kind = "Pixels" -> FInt(specs[i].v)
          [] specs[i].kind = "Percentage" ->
                PercentageWidth(specs[i].v, available_width)
          [] OTHER ->
                AutoWidth(t, specs, i,
                          RemainingWidth(specs, available_width))]

\* calculate_column_widths: cell i of each row counts for column i
CalculateColumnWidths(t) ==
    [i \in 1..ColumnCount(t) |->
        LET widths == [r \in 1..Len(t.rows) |->
                         IF i <= Len(t.rows[r].cells)
                         THEN CellContentWidth(t, t.rows[r].cells[i])
                         ELSE 0]
        IN  FInt(Max(MaxOver(widths, 0) + t.style.padding.left
                       + t.style.padding.right,
                     MIN_COLUMN_WIDTH))]

\* font_size_to_height: font_size * 1.2 (font sizes are multiples of 5)
FontSizeToHeight(font_size) ==
    (font_size * LINE_HEIGHT_NUM) \div LINE_HEIGHT_DEN

\* The height one cell needs.  The wrap budget is a fraction and every
\* measured width a whole number, so comparing against its floor is exact.
CellEstimatedHeight(t, cell, column_width) ==
    LET font_size == CellFontSize(t, cell)
        available_width ==
            FFloor(FSub(column_width,
                        FInt(t.style.padding.left + t.style.padding.right)))
    IN  IF cell.text_wrap
        THEN (IF MetricsForCell(t, cell) # None
              THEN WrappedTextHeightWithMetricsNum(cell.content,
                       available_width, font_size,
                       Unwrap(MetricsForCell(t, cell)))
              ELSE WrappedTextHeightNum(cell.content, available_width,
                                        font_size))
             \div LINE_HEIGHT_DEN
        ELSE FontSizeToHeight(font_size)

\* calculate_row_heights: cell i is measured against column_widths[i]
RowHeight(t, row, column_widths) ==
    IF row.height # None THEN Unwrap(row.height)
    ELSE LET n == Min(Len(row.cells), Len(column_widths))
             heights == [i \in 1..n |->
                           CellEstimatedHeight(t, row.cells[i],
                                               column_widths[i])]
         IN  Max(MaxOver(heights, 0) + t.style.padding.top
                   + t.style.padding.bottom,
                 FontSizeToHeight(t.style.default_font_size))

CalculateRowHeights(t, column_widths) ==
    [r \in 1..Len(t.rows) |-> RowHeight(t, t.rows[r], column_widths)]

NoLayout(status) ==
    [status |-> status, column_widths |-> <<>>, row_heights |-> <<>>,
     total_width |-> FInt(0), total_height |-> 0]

\* The column widths: resolved from the specs, or from the contents
ColumnWidths(t) ==
    IF t.column_widths # None
    THEN ResolveColumnWidths(Unwrap(t.column_widths), AvailableWidth(t), t)
    ELSE CalculateColumnWidths(t)

\* The TableLayout of the widths and heights
TableLayout(column_widths, row_heights) ==
    [status |-> Ok, column_widths |-> column_widths,
     row_heights |-> row_heights,
     total_width |-> FSum(column_widths),
     total_height |-> SumSeq(row_heights)]

\* calculate_layout
CalculateLayout(t) ==
    IF ~Validate(t).ok THEN NoLayout(Validate(t))
    ELSE IF t.column_widths = None /\ ColumnCount(t) = 0
    THEN NoLayout(Err("LayoutError", "No columns in table"))
    ELSE TableLayout(ColumnWidths(t),
                     CalculateRowHeights(t, ColumnWidths(t)))

-----------------------------------------------------------------------------
(* Calls of the text wrapper *)

drawVars ==
    <<op, table, start_x, start_y, hooked, layout, result, doc, hook_calls,
      row_idx, current_y, rows_on_current_page, page_ids, paged,
      registry, registered>>

wrapVars == <<wrap_in, wrap_out>>

imageVars == <<registry, registered>>

tokenVars == <<ops_in, flat, ops_out>>

NoTokens == ops_in = <<>> /\ flat = <<>> /\ ops_out = <<>>

\* A font with a zero-advance glyph for U+200B and a wide U+00E9.
TtfMetrics ==
    [units_per_em |-> 10,
     advance |-> [c \in Letters \cup {SP} |->
                    CASE c = "Z" -> Some(0) [] c = "E" -> Some(7)
                      [] c = SP -> Some(3) [] OTHER -> Some(5)],
     glyph_index |-> [c \in Letters \cup {SP} |->
                        CASE c = "A" -> Some(36) [] c = "B" -> Some(37)
                          [] c = "E" -> Some(40) [] c = "Z" -> Some(300)
                          [] OTHER -> Some(3)]]

\* A font with no glyph for U+200B: its width falls back to font_size * 0.5.
TtfMetricsNoGlyph ==
    [units_per_em |-> 10,
     advance |-> [c \in Letters \cup {SP} |->
                    CASE c = "Z" -> None [] OTHER -> Some(5)],
     glyph_index |-> [c \in Letters \cup {SP} |->
                        CASE c = "A" -> Some(36) [] c = "B" -> Some(37)
                          [] c = "E" -> Some(40) [] c = "Z" -> None
                          [] OTHER -> Some(3)]]

MetricsChoices == {TtfMetrics, TtfMetricsNoGlyph}

\* The texts of the tests: "A\n\nB", "\n\n\n", "Line 1\n\nLine 3" (shortened)
ExampleTexts ==
    { <<"A", NL, NL, "B">>,
      <<NL, NL, NL>>,
      <<"A", SP, "B", NL, NL, "A", SP, "E">>,
      <<"A", "B", "E", "A", "B", "E", "A">> }

WrapTexts == SeqsUpTo({"A", "E", "Z", SP, NL}, MaxTextLen) \cup ExampleTexts

\* Budgets: 4 points (no heuristic character fits) and whole characters.
WrapWidths == {4} \cup {5 * k : k \in 1..MaxWrapChars}

NoLines == [fn |-> "none", lines |-> <<>>]

NoDraw ==
    /\ op = "none" /\ table = None /\ start_x = 0 /\ start_y = 0
    /\ hooked = FALSE
    /\ layout = None /\ result = None /\ doc = None /\ hook_calls = <<>>
    /\ row_idx = 0 /\ current_y = 0 /\ rows_on_current_page = <<>>
    /\ page_ids = <<>> /\ paged = None
    /\ registry = None /\ registered = <<>>

InitWrap ==
    /\ pc = "wrap"
    /\ wrap_in \in [text : WrapTexts, max_width : WrapWidths,
                    font_size : {DEFAULT_FONT_SIZE},
                    metrics : MetricsChoices]
    /\ wrap_out = NoLines
    /\ NoDraw /\ NoTokens

WrapTextCall ==
    /\ pc = "wrap"
    /\ wrap_out' = [fn |-> "wrap_text",
                    lines |-> WrapText(wrap_in.text, wrap_in.max_width,
                                       wrap_in.font_size)]
    /\ pc' = "wrapped"
    /\ UNCHANGED <<wrap_in, drawVars, tokenVars>>

WrapTextWithMetricsCall ==
    /\ pc = "wrap"
    /\ wrap_out' = [fn |-> "wrap_text_with_metrics",
                    lines |-> WrapTextWithMetrics(wrap_in.text,
                                  wrap_in.max_width, wrap_in.font_size,
                                  wrap_in.metrics)]
    /\ pc' = "wrapped"
    /\ UNCHANGED <<wrap_in, drawVars, tokenVars>>

NextWrap == WrapTextCall \/ WrapTextWithMetricsCall

SpecWrap == InitWrap /\ [][NextWrap]_vars

-----------------------------------------------------------------------------
(* Properties of the text wrapper *)

NonWhitespace(s) == SelectSeq(s, LAMBDA c : ~IsWhitespace(c))

Wrapped == pc = "wrapped" /\ wrap_out.fn # "none"

\* The lines of the text's segments, each wrapped on its own, an empty
\* segment giving one empty line.
RECURSIVE SegmentwiseLines(_, _)
SegmentwiseLines(segments, fn) ==
    IF segments = <<>> THEN <<>>
    ELSE (IF Head(segments) = <<>> THEN << <<>> >>
          ELSE IF fn = "wrap_text"
               THEN WrapText(Head(segments), wrap_in.max_width,
                             wrap_in.font_size)
               ELSE WrapTextWithMetrics(Head(segments), wrap_in.max_width,
                                        wrap_in.font_size, wrap_in.metrics))
         \o SegmentwiseLines(Tail(segments), fn)

\* C5: wrapping is lossless.  The characters of the text other than the
\* whitespace at which it was wrapped appear in the lines exactly and in
\* order, and no hard split cuts a code point.
C5_WrapLossless ==
    Wrapped =>
        /\ NonWhitespace(Concat(wrap_out.lines)) = NonWhitespace(wrap_in.text)
        /\ \A i \in 1..Len(wrap_out.lines) :
             \A j \in 1..Len(wrap_out.lines[i]) :
               wrap_out.lines[i][j] # BROKEN

\* wrap_text_with_metrics drops a zero-width word that precedes a word wider
\* than the line: "\u{200B} A" at width 4 comes back as ["A"].
C5_Witness ==
    /\ Wrapped /\ wrap_out.fn = "wrap_text_with_metrics"
    /\ wrap_in.text = <<"Z", SP, "A">>
    /\ wrap_in.max_width = 4 /\ wrap_in.metrics = TtfMetrics
    /\ wrap_out.lines = << <<"A">> >>

\* The statement of C5 for wrap_text alone, which holds.
C5_HeuristicLossless ==
    (Wrapped /\ wrap_out.fn = "wrap_text") =>
        /\ NonWhitespace(Concat(wrap_out.lines)) = NonWhitespace(wrap_in.text)
        /\ \A i \in 1..Len(wrap_out.lines) :
             \A j \in 1..Len(wrap_out.lines[i]) :
               wrap_out.lines[i][j] # BROKEN

\* C6: a text with k line breaks is split into k + 1 segments first, and
\* every empty segment yields exactly one empty line in its position, for
\* any width: the lines are those of the segments, one after the other, and
\* none holds a line break.
C6_EmptySegmentsKept ==
    Wrapped =>
        /\ wrap_out.lines =
             SegmentwiseLines(SplitNewline(wrap_in.text), wrap_out.fn)
        /\ \A i \in 1..Len(wrap_out.lines) :
             \A j \in 1..Len(wrap_out.lines[i]) : wrap_out.lines[i][j] # NL
        /\ (wrap_in.text = <<"A", NL, NL, "B">>
              => wrap_out.lines = << <<"A">>, <<>>, <<"B">> >>)
        /\ (wrap_in.text = <<NL, NL, NL>>
              => wrap_out.lines = << <<>>, <<>>, <<>>, <<>> >>)

\* wrap_text returns the text unsplit when no character fits the width:
\* "A\n\nB" at width 4 comes back as one line.
C6_Witness ==
    /\ Wrapped /\ wrap_out.fn = "wrap_text"
    /\ wrap_in.text = <<"A", NL, NL, "B">>
    /\ wrap_in.max_width = 4
    /\ wrap_out.lines = << <<"A", NL, NL, "B">> >>

\* The statement of C6 for wrap_text_with_metrics alone, which holds.
C6_MetricsEmptySegmentsKept ==
    (Wrapped /\ wrap_out.fn = "wrap_text_with_metrics") =>
        /\ wrap_out.lines =
             SegmentwiseLines(SplitNewline(wrap_in.text), wrap_out.fn)
        /\ \A i \in 1..Len(wrap_out.lines) :
             \A j \in 1..Len(wrap_out.lines[i]) : wrap_out.lines[i][j] # NL


\* The measured width of a returned line
LineWidth(line) == TextWidth(wrap_in.metrics, line, wrap_in.font_size)

\* A line of wrap_text holds at most max_chars_per_line characters
HeuristicLineFits(line) ==
    Len(line) <= MaxCharsPerLine(wrap_in.max_width, wrap_in.font_size)

\* A line of wrap_text_with_metrics is within max_width or a single character
MeasuredLineFits(line) == LineWidth(line) <= wrap_in.max_width \/ Len(line) = 1

\* C20: every line returned by the text wrapper fits the width budget: for
\* wrap_text, whenever at least one character fits, every line has at most
\* floor(max_width / (font_size * 0.5)) characters; for
\* wrap_text_with_metrics, every line's measured width is at most max_width
\* unless the line is a single character.
C20_LinesFitBudget ==
    Wrapped =>
        \A i \in 1..Len(wrap_out.lines) :
            IF wrap_out.fn = "wrap_text"
            THEN MaxCharsPerLine(wrap_in.max_width, wrap_in.font_size) >= 1
                   => HeuristicLineFits(wrap_out.lines[i])
            ELSE MeasuredLineFits(wrap_out.lines[i])

\* "\u{200B} A" at 5 points: the line "\u{200B} A" measures 8 points
C20_Witness ==
    /\ Wrapped /\ wrap_out.fn = "wrap_text_with_metrics"
    /\ wrap_in.text = <<"Z", SP, "A">>
    /\ wrap_in.max_width = 5 /\ wrap_in.metrics = TtfMetrics
    /\ wrap_out.lines = << <<"Z", SP, "A">> >>
    /\ LineWidth(wrap_out.lines[1]) = 8

\* The heuristic half of C20: the lines of wrap_text fit
C20_HeuristicLinesFit ==
    (Wrapped /\ wrap_out.fn = "wrap_text"
       /\ MaxCharsPerLine(wrap_in.max_width, wrap_in.font_size) >= 1) =>
        \A i \in 1..Len(wrap_out.lines) : HeuristicLineFits(wrap_out.lines[i])

\* The metrics half of C20 when every character of the text has a width
C20_MeasuredLinesFitWithoutZeroWidths ==
    (Wrapped /\ wrap_out.fn = "wrap_text_with_metrics"
       /\ \A k \in 1..Len(wrap_in.text) :
             IsWhitespace(wrap_in.text[k])
             \/ CharWidth(wrap_in.metrics, wrap_in.text[k],
                          wrap_in.font_size) > 0) =>
        \A i \in 1..Len(wrap_out.lines) : MeasuredLineFits(wrap_out.lines[i])

-----------------------------------------------------------------------------
(* Tables *)

\* Padding::uniform
UniformPadding(value) ==
    [top |-> value, right |-> value, bottom |-> value, left |-> value]

\* TableStyle::default
DefaultStyle ==
    [padding |-> UniformPadding(DEFAULT_PADDING),
     default_font_size |-> DEFAULT_FONT_SIZE,
     page_height |-> None,
     top_margin |-> DEFAULT_MARGIN,
     bottom_margin |-> DEFAULT_MARGIN,
     repeat_headers |-> TRUE,
     border_style |-> "Solid",
     background_color |-> None,
     font_name |-> "Helvetica",
     embedded_font_resource_name |-> None,
     embedded_font_resource_name_bold |-> None]

\* Cell::new(content).with_colspan
NewCell(content, colspan) ==
    [content |-> content, colspan |-> colspan, text_wrap |-> FALSE,
     font_size |-> None, bold |-> FALSE,
     background_color |-> None, border |-> None, font_name |-> None,
     embedded_font_resource_name |-> None, padding |-> None,
     alignment |-> "Left", images |-> <<>>]

\* Row::new
NewRow(cells) == [cells |-> cells, height |-> None, background_color |-> None]

\* Table::new, with rows added
NewTable(rows) ==
    [rows |-> rows, style |-> DefaultStyle, column_widths |-> None,
     total_width |-> None, header_rows |-> 0, font_metrics |-> None,
     bold_font_metrics |-> None]

\* Tables of every shape: rows of up to MaxCells cells of colspan 1 or 2,
\* without width specs or with one of a few lists of them.
ShapeRows ==
    {NewRow(cells) :
        cells \in SeqsUpTo({NewCell(<<"A">>, 1), NewCell(<<"A">>, 2)},
                           MaxCells)}

ShapeWidthSpecs ==
    { None, Some(<<>>), Some(<<Auto>>), Some(<<Pixels(80), Auto>>),
      Some(<<Percentage(60), Percentage(40)>>),
      Some(<<Percentage(60), Percentage(70)>>),
      Some(<<Percentage(70), Auto, Percentage(40)>>),
      Some(<<Percentage(40), Auto, Pixels(80)>>) }

IsShapeTable(t) ==
    \E rows \in SeqsUpTo(ShapeRows, MaxRows), specs \in ShapeWidthSpecs :
        t = [NewTable(rows) EXCEPT !.column_widths = specs]

\* A cell whose colspan field was set to 0 directly counts for one column.
ZeroColspanTables ==
    { NewTable(<<NewRow(<<NewCell(<<"A">>, 0)>>),
                 NewRow(<<NewCell(<<"B">>, 1)>>)>>),
      NewTable(<<NewRow(<<NewCell(<<"A">>, 0), NewCell(<<"A">>, 1)>>),
                 NewRow(<<NewCell(<<"B">>, 1)>>)>>) }

\* Tables of two rows of n one-column cells with n width specs of any kind,
\* empty or four-letter contents in the first row, and two total widths.
WidthSpecChoices ==
    {Pixels(10), Pixels(80), Percentage(40), Percentage(60), Auto}

ContentChoices == {<<>>, <<"A", "B", "A", "B">>}

IsWidthTable(t) ==
    \E n \in 1..MaxCols :
      \E specs \in SeqsOfLen(WidthSpecChoices, n),
         contents \in SeqsOfLen(ContentChoices, n),
         total \in {Some(100), Some(400)},
         pad \in {0, DEFAULT_PADDING} :
        t = [NewTable(<<NewRow([i \in 1..n |-> NewCell(contents[i], 1)]),
                        NewRow([i \in 1..n |-> NewCell(<<>>, 1)])>>)
               EXCEPT !.column_widths = Some(specs),
                      !.total_width = total,
                      !.style.padding = UniformPadding(pad)]

IsLayoutTable(t) ==
    IsShapeTable(t) \/ t \in ZeroColspanTables \/ IsWidthTable(t)

NoWrap == wrap_in = NoLines /\ wrap_out = NoLines

NoImages == registry = None /\ registered = <<>>

NoPagination ==
    /\ row_idx = 0 /\ current_y = 0 /\ rows_on_current_page = <<>>
    /\ page_ids = <<>> /\ paged = None

InitLayout ==
    /\ pc = "start"
    /\ IsLayoutTable(table)
    /\ op = "none" /\ start_x = 0 /\ start_y = 0 /\ hooked = FALSE
    /\ layout = NoLayout(Ok) /\ result = Ok
    /\ doc = None /\ hook_calls = <<>>
    /\ NoPagination /\ NoWrap /\ NoImages /\ NoTokens

\* table.validate()
ValidateCall ==
    /\ pc = "start"
    /\ op' = "validate"
    /\ result' = Validate(table)
    /\ pc' = "done"
    /\ UNCHANGED <<table, start_x, start_y, hooked, layout, doc, hook_calls, row_idx,
                   current_y, rows_on_current_page, page_ids, paged,
                   wrapVars, tokenVars, imageVars>>

\* A layout computation that keeps its total width in the table
StoresTotalWidth(t, l) ==
    IF l.status.ok THEN [t EXCEPT !.total_width = Some(FFloor(l.total_width))]
    ELSE t

\* The table after calculate_layout(table: &Table): the borrow is shared and
\* no field of Table, Row or Cell has interior mutability.
BorrowedTable(t, l) == t

\* layout::calculate_layout(&table)
CalculateLayoutCall ==
    /\ pc = "start"
    /\ op' = "calculate_layout"
    /\ layout' = CalculateLayout(table)
    /\ result' = layout'.status
    /\ table' = BorrowedTable(table, layout')
    /\ pc' = "done"
    /\ UNCHANGED <<start_x, start_y, hooked, doc, hook_calls, row_idx,
                   current_y, rows_on_current_page, page_ids, paged,
                   wrapVars, tokenVars, imageVars>>

\* A second layout::calculate_layout(&table) on the same table
CalculateLayoutAgain ==
    /\ pc = "done" /\ op = "calculate_layout"
    /\ layout' = CalculateLayout(table)
    /\ result' = layout'.status
    /\ table' = BorrowedTable(table, layout')
    /\ pc' = "again"
    /\ UNCHANGED <<op, start_x, start_y, hooked, doc, hook_calls, row_idx,
                   current_y, rows_on_current_page, page_ids, paged,
                   wrapVars, tokenVars, imageVars>>

NextLayout == ValidateCall \/ CalculateLayoutCall \/ CalculateLayoutAgain

SpecLayout == InitLayout /\ [][NextLayout]_vars

-----------------------------------------------------------------------------
(* Properties of validation and of the column widths *)

LayoutDone == pc = "done" /\ op = "calculate_layout"

Resolved == LayoutDone /\ result.ok /\ table.column_widths # None

Specs == Unwrap(table.column_widths)

AutoColumns == {i \in 1..Len(Specs) : Specs[i].kind = "Auto"}

\* C7 as stated: the widths of a valid table with width specs are as many
\* as its columns and sum to its available width.
C7_WidthsSumToAvailable ==
    Resolved =>
        /\ Len(layout.column_widths) = ColumnCount(table)
        /\ FSum(layout.column_widths) = FInt(AvailableWidth(table))

\* C7: the widths of a valid table are as many as its columns; they sum to
\* the available width when some column is Auto and every Auto column came
\* out wider than the minimum column width.
C7_WidthsSumWhenAutoAbsorbs ==
    (LayoutDone /\ result.ok) =>
        /\ Len(layout.column_widths) = ColumnCount(table)
        /\ (/\ table.column_widths # None
            /\ AutoColumns # {}
            /\ \A i \in AutoColumns :
                  FLess(FInt(MIN_COLUMN_WIDTH), layout.column_widths[i]))
              => FSum(layout.column_widths) = FInt(AvailableWidth(table))

C7_Witness ==
    /\ Resolved
    /\ \E i, j, k \in 1..Len(Specs) :
          /\ Specs[i].kind = "Percentage" /\ Specs[j].kind = "Pixels"
          /\ Specs[k].kind = "Auto"
    /\ \A i \in AutoColumns :
          FLess(FInt(MIN_COLUMN_WIDTH), layout.column_widths[i])
    /\ FSum(layout.column_widths) = FInt(AvailableWidth(table))

\* Hundred times the width left once the Pixels and Percentage columns are
\* served: 100 * (available - fixed) - available * percentages.
RemainderTimes100 ==
    100 * AvailableWidth(table)
      - 100 * SumSeq([i \in 1..Len(Specs) |->
                        IF Specs[i].kind = "Pixels" THEN Specs[i].v ELSE 0])
      - AvailableWidth(table)
          * SumSeq([i \in 1..Len(Specs) |->
                      IF Specs[i].kind = "Percentage" THEN Specs[i].v ELSE 0])

Estimate(i) == EstimateColumnContentWidth(table, i)

TotalEstimate ==
    SumSeq([i \in 1..Len(Specs) |->
              IF i \in AutoColumns THEN Estimate(i) ELSE 0])

\* w is the larger of the minimum and the share num / den (den > 0)
IsFlooredShare(w, num, den) ==
    IF num >= MIN_COLUMN_WIDTH * den
    THEN w.n * den = num * w.d
    ELSE w = FInt(MIN_COLUMN_WIDTH)

Rejected(t) ==
    \/ Len(t.rows) = 0
    \/ \E i \in 1..Len(t.rows) :
          Coverage(t.rows[i].cells) # Coverage(t.rows[1].cells)
    \/ /\ t.column_widths # None
       /\ \/ Len(Unwrap(t.column_widths)) # Coverage(t.rows[1].cells)
          \/ PercentageTotal(Unwrap(t.column_widths)) > 100

\* C9: validate, and so calculate_layout, returns an InvalidTable error
\* exactly for a table with no rows, with a row that does not cover the
\* column count, with width specs of the wrong number or with Percentage
\* specs of more than 100 in total; validation succeeds for every other.
C9_InvalidTableExactly ==
    (pc = "done" /\ op \in {"validate", "calculate_layout"}) =>
        /\ (result.err = "InvalidTable") <=> Rejected(table)
        /\ (op = "validate" /\ ~Rejected(table)) => result = Ok

C9_Witness ==
    /\ LayoutDone
    /\ result.err = "InvalidTable"
    /\ result.why = "Total percentage widths exceed 100%"
    /\ Len(Unwrap(table.column_widths)) = ColumnCount(table)

RowsWithoutCells(t) ==
    /\ t.rows # <<>>
    /\ \A r \in 1..Len(t.rows) : t.rows[r].cells = <<>>

\* C17: calculate_layout on a table whose column count is zero (it has
\* rows, but the rows contain no cells) returns a layout error and no
\* TableLayout, both when no width specs are given and when an empty list
\* of width specs is given.
C17_ZeroColumnsIsLayoutError ==
    (LayoutDone /\ RowsWithoutCells(table)) =>
        /\ ~result.ok /\ result.err = "LayoutError"
        /\ layout = NoLayout(result)

\* The same for tables without width specs only
C17_ZeroColumnsWithoutSpecs ==
    (LayoutDone /\ RowsWithoutCells(table) /\ table.column_widths = None) =>
        /\ ~result.ok /\ result.err = "LayoutError"
        /\ layout = NoLayout(result)

\* With an empty list of width specs the call succeeds
C17_Witness ==
    /\ LayoutDone /\ RowsWithoutCells(table)
    /\ table.column_widths = Some(<<>>)
    /\ result.ok
    /\ layout.column_widths = <<>> /\ layout.total_width = FInt(0)
    /\ Len(layout.row_heights) = Len(table.rows)

AtLeastMinimum(w) == ~FLess(w, FInt(MIN_COLUMN_WIDTH))

\* C18: every column width of a layout calculate_layout returns is at least
\* the minimum column width (20 points), for Pixels, Percentage and Auto
\* columns alike and for tables with no width specs.
C18_WidthsAtLeastMinimum ==
    (LayoutDone /\ result.ok) =>
        \A i \in 1..Len(layout.column_widths) :
            AtLeastMinimum(layout.column_widths[i])

\* The same for the Auto columns and for tables with no width specs only
C18_AutoWidthsAtLeastMinimum ==
    (LayoutDone /\ result.ok) =>
        \A i \in 1..Len(layout.column_widths) :
            (table.column_widths = None \/ Specs[i].kind = "Auto")
                => AtLeastMinimum(layout.column_widths[i])

\* A Pixels(10) column is 10 wide
C18_Witness ==
    /\ Resolved
    /\ \E i \in 1..Len(Specs) :
          /\ Specs[i] = Pixels(10)
          /\ layout.column_widths[i] = FInt(10)
    /\ \E i \in 1..Len(Specs) :
          /\ Specs[i].kind = "Auto"
          /\ layout.column_widths[i] = FInt(MIN_COLUMN_WIDTH)

\* A valid table whose Pixels and Percentage columns leave nothing
NothingRemains ==
    /\ LayoutDone /\ ~Rejected(table)
    /\ table.column_widths # None
    /\ RemainderTimes100 <= 0

\* C19: when the fixed and percentage widths together meet or exceed the
\* available width, calculate_layout still succeeds, every Auto column
\* gets exactly the minimum column width, and the Pixels and Percentage
\* columns keep their specified widths without being re-normalised.
C19_NoRemainderDegradesGracefully ==
    NothingRemains =>
        /\ result.ok
        /\ Len(layout.column_widths) = Len(Specs)
        /\ \A i \in 1..Len(Specs) :
              CASE Specs[i].kind = "Auto" ->
                     layout.column_widths[i] = FInt(MIN_COLUMN_WIDTH)
                [] Specs[i].kind = "Pixels" ->
                     layout.column_widths[i] = FInt(Specs[i].v)
                [] OTHER ->
                     layout.column_widths[i].n * 100
                       = AvailableWidth(table) * Specs[i].v
                           * layout.column_widths[i].d

C19_Witness ==
    /\ NothingRemains /\ result.ok
    /\ RemainderTimes100 < 0
    /\ Specs = <<Pixels(80), Percentage(40), Auto>>
    /\ table.total_width = Some(100)
    /\ layout.column_widths = <<FInt(80), FInt(40), FInt(MIN_COLUMN_WIDTH)>>
    /\ FLess(FInt(AvailableWidth(table)), layout.total_width)

-----------------------------------------------------------------------------
(* Drawing: src/src/lib.rs and draw_table_paginated of src/src/drawing.rs *)

MaxDrawRows == 4       \* rows of a table that is drawn

\* The document holds pages 1..pages; contents lists the row groups added to
\* its pages, each with its page, its row indices and the y of its top edge.
\* objects lists the objects added to it.
InitialDoc == [pages |-> 1, contents |-> <<>>, objects |-> <<>>]

\* The page the caller draws on
StartPage == 1

\* A `?` that never returns early
NeverPropagates(status) == FALSE

\* `calculate_layout(&table)?`: an Err leaves the entry point at once
Propagates(status) == ~status.ok

\* A column index that advances by one per cell
NextCell(col_idx, cell) == col_idx + 1

\* col_idx += cell.colspan.max(1)
NextColumn(col_idx, cell) == col_idx + EffectiveColspan(cell)

\* begin_cell and end_cell of one row's cells, each with its arguments
\* (row_idx, col_idx, is_header)
RECURSIVE CellHookCalls(_, _, _, _, _)
CellHookCalls(cells, row, col_idx, column_count, is_header) ==
    IF cells = <<>> \/ col_idx >= column_count THEN <<>>
    ELSE << <<"begin_cell", row, col_idx, is_header>>,
            <<"end_cell", row, col_idx, is_header>> >>
         \o CellHookCalls(Tail(cells), row, NextColumn(col_idx, Head(cells)),
                          column_count, is_header)

\* The hook invocations of drawing the rows row_indices, none without a hook
HookCalls(t, row_indices, with_hook, column_count) ==
    IF with_hook
    THEN Concat([k \in 1..Len(row_indices) |->
                   CellHookCalls(t.rows[row_indices[k] + 1].cells,
                                 row_indices[k], 0, column_count,
                                 row_indices[k] < t.header_rows)])
    ELSE <<>>

AllRows(t) == [i \in 1..Len(t.rows) |-> i - 1]

-----------------------------------------------------------------------------
(* Drawing operations: the flat Object list of generate_table_operations
   and draw_rows_subset, and the page content made from it.  An object is
   <<"Name", text>>, <<"String", format, content>>, or an operand
   <<"Operand", what>> or <<"Operand", what, values>>: an operand stands for
   the numbers or the dictionary at that place, tells what is drawn and, for
   coordinates, holds their values.  Horizontal coordinates and widths are
   fractions, vertical coordinates and heights are whole numbers. *)

Name(text) == <<"Name", text>>
Operand(what) == <<"Operand", what>>
Numbers(what, values) == <<"Operand", what, values>>

\* Object::string_literal
StringLiteral(text) == <<"String", "Literal", text>>

\* Object::String(bytes, StringFormat::Hexadecimal)
StringHexadecimal(bytes) == <<"String", "Hexadecimal", bytes>>

\* operations_to_objects: every operator as a Name, then its operands
OperationsToObjects(ops) ==
    Concat([i \in 1..Len(ops) |-> <<Name(ops[i].operator)>> \o ops[i].operands])

Operation(operator, operands) == [operator |-> operator, operands |-> operands]

\* is_pdf_operator: the listed operators
ListedOperators ==
    {"BT", "ET", "Tf", "Td", "Tj", "TJ", "Tm", "BMC", "BDC", "EMC", "MP",
     "DP", "BX", "EX", "rg", "RG", "g", "G", "q", "Q", "W", "W*", "gs", "Do",
     "cm", "m", "l", "c", "v", "y", "h", "re", "S", "s", "f", "F", "f*",
     "B", "B*", "b", "b*", "n", "w"}

\* The names used here that start with a lowercase letter
LowercaseNames ==
    {"rg", "re", "f", "q", "n", "w", "m", "l", "cm", "gs", "ef0", "span"}

\* is_pdf_operator
IsPdfOperator(text) == text \in ListedOperators \/ text \in LowercaseNames

\* objects_to_operations: the objects after an operator up to the next
\* operator name are its operands
RECURSIVE OperandRun(_)
OperandRun(objects) ==
    IF objects = <<>> THEN 0
    ELSE IF Head(objects)[1] = "Name" /\ IsPdfOperator(Head(objects)[2])
    THEN 0
    ELSE 1 + OperandRun(Tail(objects))

\* The operation of the operator name at the head of the objects, with the
\* k objects after it as its operands
TakeOperation(objects, k) ==
    [operator |-> Head(objects)[2], operands |-> SubSeq(objects, 2, k + 1)]

\* The operations that start at the places lo..hi: every operator name
\* starts one, every other object at the top of the loop is passed over
RECURSIVE OperationsFrom(_, _, _)
OperationsFrom(objects, lo, hi) ==
    IF lo > hi THEN <<>>
    ELSE IF lo = hi
    THEN (IF objects[lo][1] = "Name" /\ IsPdfOperator(objects[lo][2])
          THEN <<TakeOperation(SubSeq(objects, lo, Len(objects)),
                     OperandRun(SubSeq(objects, lo + 1, Len(objects))))>>
          ELSE <<>>)
    ELSE OperationsFrom(objects, lo, (lo + hi) \div 2)
         \o OperationsFrom(objects, (lo + hi) \div 2 + 1, hi)

\* objects_to_operations, of the object list once it is built
ObjectsToOperations(objects) ==
    CHOOSE operations \in {OperationsFrom(built, 1, Len(built)) :
                              built \in {objects}} : TRUE

\* draw_rectangle_fill
DrawRectangleFill(what, x, y, width, height) ==
    <<Name("rg"), Operand(what),
      Name("re"), Numbers(what, <<x, y, width, height>>), Name("f")>>

\* set_stroke_style
SetStrokeStyle(what) ==
    <<Name("RG"), Operand(what), Name("w"), Operand(what)>>

\* draw_rectangle_stroke
DrawRectangleStroke(what, x, y, width, height) ==
    <<Name("re"), Numbers(what, <<x, y, width, height>>), Name("S")>>

\* draw_horizontal_line
DrawHorizontalLine(what, from_x, to_x, y) ==
    <<Name("m"), Numbers(what, <<from_x, y>>),
      Name("l"), Numbers(what, <<to_x, y>>), Name("S")>>

\* draw_vertical_line
DrawVerticalLine(what, x, from_y, to_y) ==
    <<Name("m"), Numbers(what, <<x, from_y>>),
      Name("l"), Numbers(what, <<x, to_y>>), Name("S")>>

\* wrap_objects_as_artifact
WrapObjectsAsArtifact(objects) ==
    IF objects = <<>> THEN objects
    ELSE <<Name("BDC"), Name("Artifact"), Operand("Layout")>>
         \o objects \o <<Name("EMC")>>

\* Non-semantic drawing that is never marked as an artifact
NeverArtifact(artifactize_non_semantic, objects) == objects

\* Non-semantic drawing, wrapped as an artifact in hook mode
NonSemantic(artifactize_non_semantic, objects) ==
    IF artifactize_non_semantic THEN WrapObjectsAsArtifact(objects)
    ELSE objects

\* The objects of a hook that marks every cell: begin_cell returns one BDC
\* with the tag TH or TD, end_cell one EMC; none without a hook
BeginCell(with_hook, is_header) ==
    IF with_hook
    THEN <<Name("BDC"), Name(IF is_header THEN "TH" ELSE "TD"),
           Operand("MCID")>>
    ELSE <<>>

EndCell(with_hook) == IF with_hook THEN <<Name("EMC")>> ELSE <<>>

\* draw_cell_border_overrides, the four sides sharing one style: a single
\* stroked rectangle
DrawCellBorderOverrides(cell, x, y, width, height) ==
    IF cell.border = None \/ cell.border = Some("None") THEN <<>>
    ELSE SetStrokeStyle("cell_border")
         \o DrawRectangleStroke("cell_border", x, y - height, width, height)

\* BorderDrawingMode
Full == <<"Full">>
Subset(subset_height) == <<"Subset", subset_height>>

\* rows_to_process
RowsToProcess(l, row_indices) ==
    IF row_indices # None THEN Unwrap(row_indices)
    ELSE [i \in 1..Len(l.row_heights) |-> i - 1]

\* current_y when the loop over rows_to_process reaches index idx
HorizontalLineY(l, y, rows, idx) ==
    y - SumSeq([k \in 1..idx |->
                  IF rows[k] < Len(l.row_heights)
                  THEN l.row_heights[rows[k] + 1] ELSE 0])

\* row_y_top of the row at index idx of rows_to_process
RowYTop(l, y, row_indices, idx, row) ==
    IF row_indices # None
    THEN y - SumSeq([k \in 1..idx |->
                       l.row_heights[Unwrap(row_indices)[k] + 1]])
    ELSE y - SumSeq(SubSeq(l.row_heights, 1, row))

\* current_x after moving across one column, whatever the span
AcrossColumn(l, col_idx, cell_span, current_x) ==
    FAdd(current_x, l.column_widths[col_idx + 1])

\* current_x after moving across the span of a cell
AcrossSpan(l, col_idx, cell_span, current_x) ==
    FAdd(current_x,
         FSum(SubSeq(l.column_widths, col_idx + 1,
                     Min(col_idx + cell_span, Len(l.column_widths)))))

\* The vertical lines of one row: one at the start of every cell but the
\* first
RECURSIVE RowVerticalLines(_, _, _, _, _, _)
RowVerticalLines(l, cells, col_idx, current_x, row_y_top, row_y_bottom) ==
    IF cells = <<>> \/ col_idx >= Len(l.column_widths) THEN <<>>
    ELSE (IF col_idx > 0
          THEN DrawVerticalLine("grid", current_x, row_y_top, row_y_bottom)
          ELSE <<>>)
         \o RowVerticalLines(l, Tail(cells),
                col_idx + EffectiveColspan(Head(cells)),
                AcrossSpan(l, col_idx, EffectiveColspan(Head(cells)),
                           current_x),
                row_y_top, row_y_bottom)

\* The height of the outer border
BorderHeight(l, mode) ==
    IF mode = Full THEN l.total_height ELSE mode[2]

\* drawing_utils::draw_table_borders
DrawTableBorders(t, l, position, mode, row_indices) ==
    IF t.style.border_style = "None" THEN <<>>
    ELSE SetStrokeStyle("grid")
         \o DrawRectangleStroke("grid", position[1],
                position[2] - BorderHeight(l, mode), l.total_width,
                BorderHeight(l, mode))
         \o Concat([idx \in 1..Len(RowsToProcess(l, row_indices)) |->
               IF idx > 1
               THEN DrawHorizontalLine("grid", position[1],
                        FAdd(position[1], l.total_width),
                        HorizontalLineY(l, position[2],
                            RowsToProcess(l, row_indices), idx - 1))
               ELSE <<>>])
         \o Concat([idx \in 1..Len(RowsToProcess(l, row_indices)) |->
               IF RowsToProcess(l, row_indices)[idx] >= Len(t.rows)
               THEN <<>>
               ELSE RowVerticalLines(l,
                        t.rows[RowsToProcess(l, row_indices)[idx] + 1].cells,
                        0, position[1],
                        RowYTop(l, position[2], row_indices, idx - 1,
                                RowsToProcess(l, row_indices)[idx]),
                        RowYTop(l, position[2], row_indices, idx - 1,
                                RowsToProcess(l, row_indices)[idx])
                          - l.row_heights[
                                RowsToProcess(l, row_indices)[idx] + 1])])

\* draw_table_borders of drawing.rs
DrawFullBorders(t, l, position) ==
    DrawTableBorders(t, l, position, Full, None)

\* draw_subset_borders
DrawSubsetBorders(t, l, row_indices, position) ==
    IF row_indices = <<>> THEN <<>>
    ELSE DrawTableBorders(t, l, position,
             Subset(SumSeq([k \in 1..Len(row_indices) |->
                              l.row_heights[row_indices[k] + 1]])),
             Some(row_indices))

\* A choice that lets the table's resource win over the cell's own
TableResourceFirst(t, cell) ==
    IF t.style.embedded_font_resource_name # None
    THEN t.style.embedded_font_resource_name
    ELSE cell.embedded_font_resource_name

\* The embedded font resource of a cell, if any
EmbeddedFontName(t, cell) ==
    IF cell.embedded_font_resource_name # None
    THEN cell.embedded_font_resource_name
    ELSE IF CellIsBold(cell)
            /\ t.style.embedded_font_resource_name_bold # None
    THEN t.style.embedded_font_resource_name_bold
    ELSE t.style.embedded_font_resource_name

\* The Type1 font mapping
Type1ResourceName(base_font_name, is_bold) ==
    IF is_bold
    THEN CASE base_font_name = "Helvetica" -> "F1-Bold"
           [] base_font_name = "Courier" -> "F2-Bold"
           [] base_font_name = "Times-Roman" -> "F3-Bold"
           [] OTHER -> "F1-Bold"
    ELSE CASE base_font_name = "Helvetica" -> "F1"
           [] base_font_name = "Courier" -> "F2"
           [] base_font_name = "Times-Roman" -> "F3"
           [] OTHER -> "F1"

\* The font resource named in the cell's Tf
FontResourceName(t, cell) ==
    IF EmbeddedFontName(t, cell) # None
    THEN Unwrap(EmbeddedFontName(t, cell))
    ELSE Type1ResourceName(IF cell.font_name # None
                           THEN Unwrap(cell.font_name)
                           ELSE t.style.font_name,
                           CellIsBold(cell))

\* calculate_cell_width
CalculateCellWidth(col_idx, colspan, column_widths) ==
    IF colspan > 1
    THEN FSum(SubSeq(column_widths, col_idx + 1,
                     Min(col_idx + colspan, Len(column_widths))))
    ELSE IF col_idx < Len(column_widths) THEN column_widths[col_idx + 1]
    ELSE FInt(0)

\* const IMAGE_GAP
IMAGE_GAP == 4

\* A key that is the content of the payload
ContentKey(image) == image.bytes

\* Arc::as_ptr(&image.xobject)
PayloadKey(image) == image.ptr

HasEntry(reg, image) == \E e \in reg.entries : e.key = PayloadKey(image)

EntryName(reg, image) ==
    (CHOOSE e \in reg.entries : e.key = PayloadKey(image)).name

\* format!("TblImg{}", self.counter)
ResourceName(counter) ==
    <<"TblImg0", "TblImg1", "TblImg2", "TblImg3", "TblImg4", "TblImg5">>[
        counter + 1]

\* The cell's own padding when its style has one, else the table's
CellPadding(t, cell) ==
    IF cell.padding # None THEN Unwrap(cell.padding) ELSE t.style.padding

\* The lines of a cell's text
CellLines(t, cell, width) ==
    IF cell.text_wrap
    THEN (IF MetricsForCell(t, cell) # None
          THEN WrapTextWithMetrics(cell.content,
                   FFloor(FSub(width, FInt(CellPadding(t, cell).left
                                             + CellPadding(t, cell).right))),
                   CellFontSize(t, cell), Unwrap(MetricsForCell(t, cell)))
          ELSE WrapText(cell.content,
                   FFloor(FSub(width, FInt(CellPadding(t, cell).left
                                             + CellPadding(t, cell).right))),
                   CellFontSize(t, cell)))
    ELSE SplitNewline(cell.content)

\* measure_text_width
MeasureTextWidth(text, font_size, metrics) ==
    IF metrics # None THEN TextWidth(Unwrap(metrics), text, font_size)
    ELSE EstimateTextWidth(text, font_size)

\* text_x of a line of the measured width
TextX(alignment, x, width, padding, text_width) ==
    CASE alignment = "Left" -> FAdd(x, FInt(padding.left))
      [] alignment = "Center" ->
           FSub(FAdd(x, FDiv(width, FInt(2))), Frac(text_width, 2))
      [] OTHER ->
           FSub(FAdd(x, width), FInt(padding.right + text_width))

\* font_size * DEFAULT_LINE_HEIGHT_MULTIPLIER
LineHeight(font_size) == Frac(font_size * LINE_HEIGHT_NUM, LINE_HEIGHT_DEN)

\* start_y for VerticalAlignment::Middle
FirstLineY(y, height, line_count, font_size) ==
    FSub(FAdd(FSub(FInt(y), Frac(height, 2)),
              FDiv(FMul(FInt(line_count), LineHeight(font_size)), FInt(2))),
         FInt(font_size))

\* use_encoded_text
UseEncodedText(t, cell) ==
    EmbeddedFontName(t, cell) # None /\ MetricsForCell(t, cell) # None

\* The string of a Tj
ShownText(t, cell, line) ==
    IF UseEncodedText(t, cell)
    THEN StringHexadecimal(EncodeText(Unwrap(MetricsForCell(t, cell)), line))
    ELSE StringLiteral(line)

\* text_x of line line_idx (from 1) of the lines
LineX(t, cell, lines, line_idx, x, width) ==
    TextX(cell.alignment, x, width, CellPadding(t, cell),
          MeasureTextWidth(lines[line_idx], CellFontSize(t, cell),
                           MetricsForCell(t, cell)))

\* One Td and one Tj per line: the first Td is absolute, the others are
\* relative to the line before
ShowLines(t, cell, lines, x, y, width, height) ==
    Concat([line_idx \in 1..Len(lines) |->
              << Operation("Td",
                    <<Numbers("text_position",
                        IF line_idx = 1
                        THEN <<LineX(t, cell, lines, 1, x, width),
                               FirstLineY(y, height, Len(lines),
                                          CellFontSize(t, cell))>>
                        ELSE <<FSub(LineX(t, cell, lines, line_idx, x,
                                          width),
                                    LineX(t, cell, lines, line_idx - 1, x,
                                          width)),
                               FSub(FInt(0),
                                    LineHeight(CellFontSize(t, cell)))>>)>>),
                 Operation("Tj", <<ShownText(t, cell, lines[line_idx])>>) >>])

\* draw_cell_text_operations
DrawCellTextOperations(cell, t, x, y, width, height) ==
    IF cell.content = <<>> THEN <<>>
    ELSE << Operation("BT", <<>>),
            Operation("Tf", <<Name(FontResourceName(t, cell)),
                              Numbers("font_size",
                                      <<CellFontSize(t, cell)>>)>>),
            Operation("rg", <<Operand("text_color")>>) >>
         \o ShowLines(t, cell, CellLines(t, cell, width), x, y, width,
                      height)
         \o <<Operation("ET", <<>>)>>

\* draw_cell_text: the text inside a clipping rectangle, the cell's bounds
DrawCellText(cell, t, x, y, width, height) ==
    <<Name("q"), Name("re"), Numbers("clip", <<x, y - height, width, height>>),
      Name("W"), Name("n")>>
    \o OperationsToObjects(DrawCellTextOperations(cell, t, x, y, width,
                                                  height))
    \o <<Name("Q")>>

\* calculate_image_render_bounds, for an image whose pixel sizes are not 0:
\* None when no room is left inside the padding
CalculateImageRenderBounds(x, y, width, height, padding) ==
    IF ~FLess(FInt(padding.left + padding.right), width)
       \/ height - padding.top - padding.bottom <= 0
    THEN None
    ELSE Some("bounds")

\* resolve_overlay_font_resource_name
ResolveOverlayFontResourceName(t) ==
    IF t.style.embedded_font_resource_name # None
    THEN Unwrap(t.style.embedded_font_resource_name)
    ELSE "F1"

\* The text of every overlay
OverlayText == <<"A">>

\* draw_image_overlay: the bar inside q ... Q, then the text
DrawImageOverlay(t) ==
    <<Name("q"), Name("gs"), Name("GSTblOvl"),
      Name("rg"), Operand("overlay_bar"),
      Name("re"), Operand("overlay_bar"), Name("f"), Name("Q"),
      Name("BT"), Name("rg"), Operand("overlay_text"),
      Name("Tf"), Name(ResolveOverlayFontResourceName(t)),
      Operand("overlay_font_size"),
      Name("Td"), Operand("overlay_text"),
      Name("Tj"),
      IF t.style.embedded_font_resource_name # None /\ t.font_metrics # None
      THEN StringHexadecimal(EncodeText(Unwrap(t.font_metrics), OverlayText))
      ELSE StringLiteral(OverlayText),
      Name("ET")>>

\* draw_cell_image
DrawCellImage(image, resource_name, x, y, width, height, padding, t, has_gstate) ==
    IF CalculateImageRenderBounds(x, y, width, height, padding) = None
    THEN <<>>
    ELSE <<Name("q"), Name("re"),
           Numbers("image_clip", <<x, y - height, width, height>>),
           Name("W"), Name("n"), Name("cm"), Operand("image"),
           Name("Do"), Name(resource_name), Name("Q")>>
         \o (IF image.overlay /\ has_gstate THEN DrawImageOverlay(t)
             ELSE <<>>)

\* slot_w of one of count images
SlotWidth(width, padding, count) ==
    FDiv(FSub(width, FInt(padding.left + padding.right
                            + IMAGE_GAP * (count - 1))),
         FInt(count))

\* slot_x of image k (from 1)
SlotX(x, width, padding, count, k) ==
    FAdd(FAdd(x, FInt(padding.left)),
         FMul(FInt(k - 1),
              FAdd(SlotWidth(width, padding, count), FInt(IMAGE_GAP))))

\* slot_padding
SlotPadding(padding) ==
    [top |-> padding.top, right |-> 0, bottom |-> padding.bottom, left |-> 0]

\* draw_cell_images: one image in the whole cell, several side by side
DrawCellImages(images, reg, x, y, width, height, padding, t) ==
    IF Len(images) = 0 THEN <<>>
    ELSE IF Len(images) = 1
    THEN (IF HasEntry(reg, images[1])
          THEN DrawCellImage(images[1], EntryName(reg, images[1]), x, y,
                             width, height, padding, t,
                             reg.gstate_id # None)
          ELSE <<>>)
    ELSE Concat([k \in 1..Len(images) |->
            IF HasEntry(reg, images[k])
            THEN DrawCellImage(images[k], EntryName(reg, images[k]),
                     SlotX(x, width, padding, Len(images), k), y,
                     SlotWidth(width, padding, Len(images)), height,
                     SlotPadding(padding), t, reg.gstate_id # None)
            ELSE <<>>])

\* The cell's part of the loop over a row's cells, up to end_cell
CellObjects(t, l, cell, col_idx, x, y, row_height, with_hook, is_header, reg) ==
    BeginCell(with_hook, is_header)
    \o (IF cell.background_color # None
        THEN DrawRectangleFill("cell_bg", x, y - row_height,
                 CalculateCellWidth(col_idx, cell.colspan, l.column_widths),
                 row_height)
        ELSE <<>>)
    \o DrawCellText(cell, t, x, y,
                    CalculateCellWidth(col_idx, cell.colspan,
                                       l.column_widths),
                    row_height)
    \o (IF reg # None /\ cell.images # <<>>
        THEN DrawCellImages(cell.images, reg, x, y,
                 CalculateCellWidth(col_idx, cell.colspan, l.column_widths),
                 row_height, CellPadding(t, cell), t)
        ELSE <<>>)
    \o EndCell(with_hook)

\* The loop over a row's cells
RECURSIVE RowCellObjects(_, _, _, _, _, _, _, _, _, _, _)
RowCellObjects(t, l, cells, col_idx, current_x, y, row_height, column_count, with_hook, is_header, reg) ==
    IF cells = <<>> \/ col_idx >= column_count THEN <<>>
    ELSE CellObjects(t, l, Head(cells), col_idx, current_x, y, row_height,
                     with_hook, is_header, reg)
         \o RowCellObjects(t, l, Tail(cells),
                NextColumn(col_idx, Head(cells)),
                FAdd(current_x,
                     CalculateCellWidth(col_idx, Head(cells).colspan,
                                        l.column_widths)),
                y, row_height, column_count, with_hook, is_header, reg)

\* cell_border_overlay_ops of a row's cells
RECURSIVE RowBorderOverlay(_, _, _, _, _, _, _, _)
RowBorderOverlay(l, cells, col_idx, current_x, y, row_height, column_count, with_hook) ==
    IF cells = <<>> \/ col_idx >= column_count THEN <<>>
    ELSE NonSemantic(with_hook,
             DrawCellBorderOverrides(Head(cells), current_x, y,
                 CalculateCellWidth(col_idx, Head(cells).colspan,
                                    l.column_widths),
                 row_height))
         \o RowBorderOverlay(l, Tail(cells),
                NextColumn(col_idx, Head(cells)),
                FAdd(current_x,
                     CalculateCellWidth(col_idx, Head(cells).colspan,
                                        l.column_widths)),
                y, row_height, column_count, with_hook)

\* One row whose top edge is at y: its background, then its cells
RowObjects(t, l, row, position, y, column_count, with_hook, reg) ==
    NonSemantic(with_hook,
                IF t.rows[row + 1].background_color # None
                THEN DrawRectangleFill("row_bg", position[1],
                         y - l.row_heights[row + 1], l.total_width,
                         l.row_heights[row + 1])
                ELSE <<>>)
    \o RowCellObjects(t, l, t.rows[row + 1].cells, 0, position[1], y,
                      l.row_heights[row + 1], column_count, with_hook,
                      row < t.header_rows, reg)

\* The border overrides of the cells, emitted before the border grid
OverridesThenBorders(border_ops, cell_border_overlay_ops) ==
    cell_border_overlay_ops \o border_ops

\* operations.extend(border_ops); operations.extend(cell_border_overlay_ops)
BordersThenOverrides(border_ops, cell_border_overlay_ops) ==
    border_ops \o cell_border_overlay_ops

\* current_y when the loop over the rows row_indices reaches index k (from 1)
RowTop(l, position, row_indices, k) ==
    position[2] - SumSeq([j \in 1..(k - 1) |->
                            l.row_heights[row_indices[j] + 1]])

\* generate_table_operations: the table background, the rows, the border
\* grid and the border overrides of the cells
GenerateTableOperations(t, l, position, with_hook, reg) ==
    NonSemantic(with_hook,
                IF t.style.background_color # None
                THEN DrawRectangleFill("table_bg", position[1],
                         position[2] - l.total_height, l.total_width,
                         l.total_height)
                ELSE <<>>)
    \o Concat([k \in 1..Len(t.rows) |->
                 RowObjects(t, l, k - 1, position,
                            RowTop(l, position, AllRows(t), k),
                            Len(l.column_widths), with_hook, reg)])
    \o BordersThenOverrides(
           NonSemantic(with_hook, DrawFullBorders(t, l, position)),
           Concat([k \in 1..Len(t.rows) |->
                     RowBorderOverlay(l, t.rows[k].cells, 0, position[1],
                         RowTop(l, position, AllRows(t), k),
                         l.row_heights[k], Len(l.column_widths),
                         with_hook)]))

\* The height of the first row of the subset only
FirstRowHeight(l, row_indices) == l.row_heights[row_indices[1] + 1]

\* subset_height
SubsetHeight(l, row_indices) ==
    SumSeq([k \in 1..Len(row_indices) |-> l.row_heights[row_indices[k] + 1]])

\* The objects draw_rows_subset makes for a page: the table background on
\* the page of row 0, the rows, the border grid of the subset and the
\* border overrides of the cells
SubsetOperations(t, l, row_indices, position, with_hook, reg) ==
    NonSemantic(with_hook,
                IF (\E k \in 1..Len(row_indices) : row_indices[k] = 0)
                   /\ t.style.background_color # None
                THEN DrawRectangleFill("table_bg", position[1],
                         position[2] - SubsetHeight(l, row_indices),
                         l.total_width, SubsetHeight(l, row_indices))
                ELSE <<>>)
    \o Concat([k \in 1..Len(row_indices) |->
                 RowObjects(t, l, row_indices[k], position,
                            RowTop(l, position, row_indices, k),
                            ColumnCount(t), with_hook, reg)])
    \o BordersThenOverrides(
           NonSemantic(with_hook,
                       DrawSubsetBorders(t, l, row_indices, position)),
           Concat([k \in 1..Len(row_indices) |->
                     RowBorderOverlay(l, t.rows[row_indices[k] + 1].cells,
                         0, position[1],
                         RowTop(l, position, row_indices, k),
                         l.row_heights[row_indices[k] + 1], ColumnCount(t),
                         with_hook)]))

\* A page's content stream: where it is, the rows it shows, the objects
\* generated and the operations they were converted to
ContentStream(page_id, row_indices, y, objects) ==
    [page |-> page_id, rows |-> row_indices, y |-> y, objects |-> objects,
     ops |-> ObjectsToOperations(objects)]

\* add_operations_to_page: the objects become a content stream of the page
AddOperationsToPage(d, page_id, row_indices, y, operations) ==
    [d EXCEPT !.contents =
        Append(@, ContentStream(page_id, row_indices, y, operations))]

\* draw_rows_subset
DrawRowsSubset(d, page_id, t, l, row_indices, position, with_hook, reg) ==
    IF row_indices = <<>> THEN d
    ELSE AddOperationsToPage(d, page_id, row_indices, position[2],
             SubsetOperations(t, l, row_indices, position, with_hook, reg))

\* create_new_page: the new page's id is the new page count
CreateNewPage(d) ==
    [d EXCEPT !.pages = @ + 1,
              !.objects = Append(@, [kind |-> "Page", bytes |-> "none"])]

\* table.style.page_height.unwrap_or(A4_HEIGHT)
PageHeight(t) ==
    IF t.style.page_height # None THEN Unwrap(t.style.page_height)
    ELSE A4_HEIGHT

\* A fit test against the page's lower edge instead of the bottom margin
NeedsBreakAtPageEdge(y, row_height, bottom_margin, rows) ==
    y - row_height < 0 /\ rows # <<>>

\* A fit test that also breaks when the row ends on the bottom margin
NeedsBreakInclusive(y, row_height, bottom_margin, rows) ==
    y - row_height <= bottom_margin /\ rows # <<>>

\* A fit test that breaks on an empty page too
NeedsBreakWhenFull(y, row_height, bottom_margin, rows) ==
    y - row_height < bottom_margin

\* The test that the row does not fit on the current page
NeedsBreak(y, row_height, bottom_margin, rows) ==
    y - row_height < bottom_margin /\ rows # <<>>

\* An anchor that is the caller's y on every page
StartAnchor(pages, y, page_height, top_margin) == y

\* The y at which a page's row group is drawn
PageAnchor(pages, y, page_height, top_margin) ==
    IF Len(pages) = 1 THEN y ELSE page_height - top_margin

\* A row group that is kept across the page break
Kept(rows) == rows

\* rows_on_current_page.clear()
Cleared(rows) == <<>>

\* A continuation page without header rows
NoHeaders(t, idx) == <<>>

\* The header rows a continuation page starts with, the break falling
\* before row idx
SeedHeaders(t, idx) ==
    IF t.style.repeat_headers /\ t.header_rows > 0 /\ idx >= t.header_rows
    THEN [h \in 1..t.header_rows |-> h - 1]
    ELSE <<>>

HeightsOf(row_heights, row_indices) ==
    SumSeq([k \in 1..Len(row_indices) |-> row_heights[row_indices[k] + 1]])

\* Tables of one-cell rows of fixed heights
FixedHeightTable(heights, header_rows, repeat_headers, page_height, top_margin) ==
    [NewTable([i \in 1..Len(heights) |->
                 [NewRow(<<NewCell(<<"A">>, 1)>>)
                    EXCEPT !.height = Some(heights[i])]])
       EXCEPT !.header_rows = header_rows,
              !.style.repeat_headers = repeat_headers,
              !.style.page_height = page_height,
              !.style.top_margin = top_margin]

IsFixedHeightTable(t) ==
    \E n \in 1..MaxDrawRows :
      \E heights \in SeqsOfLen({30, 60}, n),
         header_rows \in 0..2,
         repeat_headers \in BOOLEAN,
         page_height \in {None, Some(200)},
         top_margin \in {40, DEFAULT_MARGIN} :
        t = FixedHeightTable(heights, header_rows, repeat_headers,
                             page_height, top_margin)

\* Two rows of height 30 and three columns: the first row's first cell
\* spans two columns, the second row is one wide cell or two cells
TwoRows(first_cell, second_cell, wide) ==
    << [NewRow(<<[first_cell EXCEPT !.colspan = 2], second_cell>>)
          EXCEPT !.height = Some(30)],
       [NewRow(IF wide THEN <<NewCell(<<"A">>, 3)>>
               ELSE <<NewCell(<<>>, 1), NewCell(<<"B">>, 2)>>)
          EXCEPT !.height = Some(30)] >>

\* Tables with backgrounds, a border grid and cell border overrides
IsDecoratedTable(t) ==
    \E wide \in BOOLEAN, header_rows \in 0..1,
       border_style \in {"Solid", "None"},
       table_bg \in {None, Some("gray")},
       row_bg \in {None, Some("gray")},
       cell_bg \in {None, Some("gray")},
       border \in {None, Some("Solid"), Some("None")} :
        t = [NewTable(
               [TwoRows([NewCell(<<"A">>, 1)
                           EXCEPT !.background_color = cell_bg],
                        [NewCell(<<"B">>, 1) EXCEPT !.border = border],
                        wide)
                  EXCEPT ![1].background_color = row_bg])
               EXCEPT !.header_rows = header_rows,
                      !.style.border_style = border_style,
                      !.style.background_color = table_bg]

\* Tables whose first cell and style name fonts
IsFontTable(t) ==
    \E bold \in BOOLEAN,
       cell_resource \in {None, Some("CF0")},
       cell_font \in {None, Some("Courier"), Some("Times-Roman")},
       table_resource \in {None, Some("EF0"), Some("ef0")},
       bold_resource \in {None, Some("EF0B")},
       table_font \in {"Helvetica", "Arial"} :
        t = [NewTable(
               TwoRows([NewCell(<<"A">>, 1)
                          EXCEPT !.bold = bold,
                                 !.embedded_font_resource_name =
                                     cell_resource,
                                 !.font_name = cell_font],
                       NewCell(<<"B">>, 1), TRUE))
               EXCEPT !.style.font_name = table_font,
                      !.style.embedded_font_resource_name = table_resource,
                      !.style.embedded_font_resource_name_bold =
                          bold_resource]

\* Tables that calculate_layout rejects
FailingTables ==
    { NewTable(<<>>),
      NewTable(<<NewRow(<<>>)>>),
      NewTable(<<NewRow(<<NewCell(<<"A">>, 1)>>),
                 NewRow(<<NewCell(<<"A">>, 1), NewCell(<<"B">>, 1)>>)>>),
      [NewTable(<<NewRow(<<NewCell(<<"A">>, 2)>>)>>)
         EXCEPT !.column_widths = Some(<<Auto>>)],
      [NewTable(<<NewRow(<<NewCell(<<"A">>, 1), NewCell(<<"B">>, 1)>>)>>)
         EXCEPT !.column_widths =
                  Some(<<Percentage(60), Percentage(70)>>)] }

Init ==
    /\ pc = "start"
    /\ \/ IsFixedHeightTable(table) \/ table \in FailingTables
       \/ IsDecoratedTable(table) \/ IsFontTable(table)
    /\ start_x \in {50, 70}
    /\ start_y \in {100, 150}
    /\ op = "none" /\ hooked = FALSE
    /\ layout = NoLayout(Ok) /\ result = Ok
    /\ doc = InitialDoc /\ hook_calls = <<>>
    /\ NoPagination /\ NoWrap /\ NoImages /\ NoTokens

\* A result that counts the continuation pages only
ContinuationPagesResult(pids, x, y) ==
    [page_ids |-> pids, total_pages |-> Len(pids) - 1,
     final_position |-> <<x, y>>]

\* PagedTableResult { total_pages: page_ids.len(), page_ids,
\*                    final_position: (start_x, current_y) }
PagedTableResult(pids, x, y) ==
    [page_ids |-> pids, total_pages |-> Len(pids),
     final_position |-> <<x, y>>]

paginationVars == <<row_idx, current_y, rows_on_current_page, page_ids>>

\* Document::draw_table
DrawTable ==
    /\ pc = "start"
    /\ op' = "draw_table" /\ hooked' = FALSE
    /\ layout' = CalculateLayout(table)
    /\ IF Propagates(layout'.status)
       THEN result' = layout'.status /\ doc' = doc
       ELSE result' = Ok
            /\ doc' = AddOperationsToPage(doc, StartPage, AllRows(table),
                         start_y,
                         GenerateTableOperations(table, layout',
                             <<FInt(start_x), start_y>>, FALSE, None))
    /\ pc' = "done"
    /\ UNCHANGED <<table, start_x, start_y, hook_calls, paginationVars, paged, wrapVars, tokenVars, imageVars>>

\* Document::draw_table_with_hook, with a hook or with None
DrawTableWithHook ==
    /\ pc = "start"
    /\ op' = "draw_table_with_hook"
    /\ hooked' \in BOOLEAN
    /\ layout' = CalculateLayout(table)
    /\ IF Propagates(layout'.status)
       THEN result' = layout'.status /\ doc' = doc
            /\ hook_calls' = hook_calls
       ELSE result' = Ok
            /\ doc' = AddOperationsToPage(doc, StartPage, AllRows(table),
                         start_y,
                         GenerateTableOperations(table, layout',
                             <<FInt(start_x), start_y>>, hooked', None))
            /\ hook_calls' =
                 hook_calls \o
                 HookCalls(table, AllRows(table), hooked',
                           Len(layout'.column_widths))
    /\ pc' = "done"
    /\ UNCHANGED <<table, start_x, start_y, paginationVars, paged, wrapVars, tokenVars, imageVars>>

\* Document::draw_table_with_pagination, up to the loop of
\* draw_table_paginated
DrawTableWithPagination ==
    /\ pc = "start"
    /\ op' = "draw_table_with_pagination" /\ hooked' = FALSE
    /\ layout' = CalculateLayout(table)
    /\ IF Propagates(layout'.status)
       THEN result' = layout'.status /\ pc' = "done"
            /\ UNCHANGED paginationVars
       ELSE result' = result /\ pc' = "paginate"
            /\ page_ids' = <<StartPage>>
            /\ current_y' = start_y
            /\ rows_on_current_page' = <<>>
            /\ row_idx' = 0
    /\ UNCHANGED <<table, start_x, start_y, doc, hook_calls, paged, wrapVars, tokenVars, imageVars>>

\* Document::draw_table_with_pagination_and_hook, with a hook or with None
DrawTableWithPaginationAndHook ==
    /\ pc = "start"
    /\ op' = "draw_table_with_pagination_and_hook"
    /\ hooked' \in BOOLEAN
    /\ layout' = CalculateLayout(table)
    /\ IF Propagates(layout'.status)
       THEN result' = layout'.status /\ pc' = "done"
            /\ UNCHANGED paginationVars
       ELSE result' = result /\ pc' = "paginate"
            /\ page_ids' = <<StartPage>>
            /\ current_y' = start_y
            /\ rows_on_current_page' = <<>>
            /\ row_idx' = 0
    /\ UNCHANGED <<table, start_x, start_y, doc, hook_calls, paged, wrapVars, tokenVars, imageVars>>

\* One turn of the loop for a row that fits
PlaceRow ==
    /\ pc = "paginate"
    /\ row_idx < Len(table.rows)
    /\ ~NeedsBreak(current_y, layout.row_heights[row_idx + 1],
                   table.style.bottom_margin, rows_on_current_page)
    /\ rows_on_current_page' = Append(rows_on_current_page, row_idx)
    /\ current_y' = current_y - layout.row_heights[row_idx + 1]
    /\ row_idx' = row_idx + 1
    /\ UNCHANGED <<pc, op, table, start_x, start_y, hooked, layout, result, doc,
                   hook_calls, page_ids, paged, wrapVars, tokenVars, imageVars>>

\* One turn of the loop for a row that does not fit: the accumulated rows
\* are drawn, a page is created and the row starts it, after the headers
BreakPage ==
    /\ pc = "paginate"
    /\ row_idx < Len(table.rows)
    /\ NeedsBreak(current_y, layout.row_heights[row_idx + 1],
                  table.style.bottom_margin, rows_on_current_page)
    /\ LET drawn ==
               DrawRowsSubset(doc, page_ids[Len(page_ids)], table, layout,
                   rows_on_current_page,
                   <<FInt(start_x),
                     PageAnchor(page_ids, start_y, PageHeight(table),
                                table.style.top_margin)>>,
                   hooked, registry)
           headers == SeedHeaders(table, row_idx)
       IN  /\ doc' = CreateNewPage(drawn)
           /\ hook_calls' =
                hook_calls \o
                HookCalls(table, rows_on_current_page, hooked,
                          ColumnCount(table))
           /\ page_ids' = Append(page_ids, CreateNewPage(drawn).pages)
           /\ rows_on_current_page' =
                Append(Cleared(rows_on_current_page) \o headers, row_idx)
           /\ current_y' =
                PageHeight(table) - table.style.top_margin
                  - HeightsOf(layout.row_heights, headers)
                  - layout.row_heights[row_idx + 1]
    /\ row_idx' = row_idx + 1
    /\ UNCHANGED <<pc, op, table, start_x, start_y, hooked, layout, result,
                   paged, wrapVars, tokenVars, imageVars>>

\* After the loop: the rows of the last page are drawn and the call returns
FinishPagination ==
    /\ pc = "paginate"
    /\ row_idx >= Len(table.rows)
    /\ doc' = DrawRowsSubset(doc, page_ids[Len(page_ids)], table, layout,
                  rows_on_current_page,
                  <<FInt(start_x),
                    PageAnchor(page_ids, start_y, PageHeight(table),
                               table.style.top_margin)>>,
                  hooked, registry)
    /\ hook_calls' =
         hook_calls \o
         HookCalls(table, rows_on_current_page, hooked, ColumnCount(table))
    /\ paged' = Some(PagedTableResult(page_ids, start_x, current_y))
    /\ result' = Ok
    /\ pc' = "done"
    /\ UNCHANGED <<op, table, start_x, start_y, hooked, layout, paginationVars,
                   wrapVars, tokenVars, imageVars>>

Next ==
    \/ DrawTable
    \/ DrawTableWithHook
    \/ DrawTableWithPagination
    \/ DrawTableWithPaginationAndHook
    \/ PlaceRow
    \/ BreakPage
    \/ FinishPagination

Spec == Init /\ [][Next]_vars

-----------------------------------------------------------------------------
(* Token streams: operations_to_objects of src/src/drawing.rs followed by
   objects_to_operations of src/src/drawing_utils.rs, as draw_cell_text and
   the hook's operations are flattened and add_operations_to_page parses
   the result *)

MaxOperations == 2     \* operations of a flattened list

\* Marked-content tags, font resources, an image and the overlay state
OperandNames ==
    [BDC |-> {"TH", "TD", "Artifact", "span"},
     Tf |-> {"F1", "EF0", "ef0", "F"},
     Do |-> {"TblImg0"},
     gs |-> {"GSTblOvl"}]

\* The operations the emitter and a hook produce that have a Name operand,
\* and some that have none
TokenOperations ==
    {Operation("BDC", <<Name(tag), Operand("MCID")>>) : tag \in OperandNames.BDC}
    \cup {Operation("Tf", <<Name(font), Operand("font_size")>>) :
             font \in OperandNames.Tf}
    \cup {Operation("Do", <<Name(image)>>) : image \in OperandNames.Do}
    \cup {Operation("gs", <<Name(state)>>) : state \in OperandNames.gs}
    \cup {Operation("BT", <<>>), Operation("ET", <<>>), Operation("EMC", <<>>)}

InitTokens ==
    /\ pc = "flatten"
    /\ \E n \in 1..MaxOperations : ops_in \in SeqsOfLen(TokenOperations, n)
    /\ flat = <<>> /\ ops_out = <<>>
    /\ NoDraw /\ NoWrap

OperationsToObjectsCall ==
    /\ pc = "flatten"
    /\ flat' = OperationsToObjects(ops_in)
    /\ pc' = "parse"
    /\ UNCHANGED <<ops_in, ops_out, op, table, start_x, start_y, hooked, layout,
                   result, doc, hook_calls, paginationVars, paged, wrapVars,
                   imageVars>>

ObjectsToOperationsCall ==
    /\ pc = "parse"
    /\ ops_out' = ObjectsToOperations(flat)
    /\ pc' = "parsed"
    /\ UNCHANGED <<ops_in, flat, op, table, start_x, start_y, hooked, layout,
                   result, doc, hook_calls, paginationVars, paged, wrapVars,
                   imageVars>>

NextTokens == OperationsToObjectsCall \/ ObjectsToOperationsCall

SpecTokens == InitTokens /\ [][NextTokens]_vars

\* The Names among the operands of the operations
NameOperands(ops) ==
    UNION {{ops[i].operands[j][2] :
              j \in {k \in 1..Len(ops[i].operands) :
                       ops[i].operands[k][1] = "Name"}} :
           i \in 1..Len(ops)}

\* C24: flattening a list of operations and re-parsing it with
\* objects_to_operations yields the same list of operations, a Name used as
\* an operand being kept as an operand of the preceding operator, for any
\* such name.
C24_FlattenParseRoundTrip == pc = "parsed" => ops_out = ops_in

\* A font resource named "ef0" becomes an operator of its own
C24_Witness ==
    /\ pc = "parsed"
    /\ ops_in = <<Operation("Tf", <<Name("ef0"), Operand("font_size")>>)>>
    /\ flat = <<Name("Tf"), Name("ef0"), Operand("font_size")>>
    /\ ops_out = <<Operation("Tf", <<>>),
                   Operation("ef0", <<Operand("font_size")>>)>>

\* The round trip holds when no operand Name is one is_pdf_operator accepts
C24_RoundTripOfOtherNames ==
    (pc = "parsed" /\ \A name \in NameOperands(ops_in) : ~IsPdfOperator(name))
        => ops_out = ops_in

-----------------------------------------------------------------------------
(* Image registration: ImageXObjects and register_all_images of
   src/src/drawing.rs.  A CellImage is [ptr, bytes, overlay]: ptr is the
   address of the shared Arc<Stream> payload, bytes the stream's content. *)

MaxImages == 3         \* images of a table

\* Payloads 1 and 2 are distinct with equal bytes
ImageChoices ==
    {[ptr |-> p, bytes |-> IF p = 3 THEN "y" ELSE "x", overlay |-> o] :
        p \in 1..3, o \in BOOLEAN}

\* A cell with the images
ImageCell(images) == [NewCell(<<>>, 1) EXCEPT !.images = images]

\* The first two images share a cell of the first row, the others are in a
\* cell of the second
ImageTable(images) ==
    NewTable(<<NewRow(<<ImageCell(SubSeq(images, 1, Min(2, Len(images))))>>),
               NewRow(<<ImageCell(SubSeq(images, 3, Len(images)))>>)>>)

IsImageTable(t) ==
    \E n \in 1..MaxImages :
      \E images \in SeqsOfLen(ImageChoices, n) : t = ImageTable(images)

\* for row in &table.rows { for cell in &row.cells { for image in ... } } }
AllImages(t) ==
    Concat([r \in 1..Len(t.rows) |->
              Concat([c \in 1..Len(t.rows[r].cells) |->
                        t.rows[r].cells[c].images])])

\* ImageXObjects::new
NewImageXObjects == [entries |-> {}, counter |-> 0, gstate_id |-> None]

\* doc.add_object: the id of the object added next
NextObjectId(d) == Len(d.objects) + 1

InitImages ==
    /\ pc = "register"
    /\ IsImageTable(table)
    /\ op = "register_all_images"
    /\ registry = NewImageXObjects /\ registered = <<>>
    /\ doc = InitialDoc
    /\ start_x = 0 /\ start_y = 0 /\ hooked = FALSE
    /\ layout = NoLayout(Ok) /\ result = Ok /\ hook_calls = <<>>
    /\ NoPagination /\ NoWrap /\ NoTokens

\* One turn of the loop of register_all_images: registry.register(doc,
\* image) for the next image of the table
RegisterImage ==
    /\ pc = "register"
    /\ Len(registered) < Len(AllImages(table))
    /\ LET image == AllImages(table)[Len(registered) + 1]
       IN  IF HasEntry(registry, image)
           THEN /\ registered' =
                     Append(registered,
                            [image |-> image,
                             name |-> EntryName(registry, image)])
                /\ UNCHANGED <<registry, doc>>
           ELSE /\ registered' =
                     Append(registered,
                            [image |-> image,
                             name |-> ResourceName(registry.counter)])
                /\ registry' =
                     [registry EXCEPT
                        !.entries = @ \cup
                            {[key |-> PayloadKey(image),
                              name |-> ResourceName(registry.counter),
                              obj_id |-> NextObjectId(doc)]},
                        !.counter = @ + 1]
                /\ doc' = [doc EXCEPT !.objects =
                              Append(@, [kind |-> "XObject",
                                         bytes |-> image.bytes])]
    /\ UNCHANGED <<pc, op, table, start_x, start_y, hooked, layout, result,
                   hook_calls, paginationVars, paged, wrapVars, tokenVars>>

\* After the loop: ensure_gstate when an image has an overlay
FinishRegistration ==
    /\ pc = "register"
    /\ Len(registered) = Len(AllImages(table))
    /\ IF \E i \in 1..Len(registered) : registered[i].image.overlay
       THEN /\ registry' =
                 [registry EXCEPT !.gstate_id = Some(NextObjectId(doc))]
            /\ doc' = [doc EXCEPT !.objects =
                          Append(@, [kind |-> "ExtGState",
                                     bytes |-> "none"])]
       ELSE UNCHANGED <<registry, doc>>
    /\ pc' = "done"
    /\ UNCHANGED <<op, table, start_x, start_y, hooked, layout, result,
                   hook_calls, paginationVars, paged, wrapVars, tokenVars, registered>>

NextImages == RegisterImage \/ FinishRegistration

SpecImages == InitImages /\ [][NextImages]_vars

\* The payload identities registered so far
RegisteredPayloads == {registered[i].image.ptr : i \in 1..Len(registered)}

\* The image objects added to the document
ImageObjects == {i \in 1..Len(doc.objects) : doc.objects[i].kind = "XObject"}

\* C16: after any sequence of registrations in one draw the registry holds
\* exactly one entry, and the document exactly one added object, per
\* distinct payload identity: registering a payload again returns the same
\* resource name and adds nothing, two distinct payloads get two distinct
\* names even when their bytes are equal, and the counter is the number
\* of entries.
C16_OneEntryPerPayload ==
    (op = "register_all_images") =>
        /\ Cardinality(registry.entries) = Cardinality(RegisteredPayloads)
        /\ Cardinality(ImageObjects) = Cardinality(RegisteredPayloads)
        /\ {e.obj_id : e \in registry.entries} = ImageObjects
        /\ {e.name : e \in registry.entries}
             = {registered[i].name : i \in 1..Len(registered)}
        /\ \A i, j \in 1..Len(registered) :
              (registered[i].image.ptr = registered[j].image.ptr)
                <=> (registered[i].name = registered[j].name)
        /\ registry.counter = Cardinality(registry.entries)

C16_Witness ==
    /\ op = "register_all_images" /\ pc = "done"
    /\ Len(registered) = 3
    /\ registered[1].image.ptr = 1 /\ registered[2].image.ptr = 2
    /\ registered[3].image.ptr = 1
    /\ registered[1].name = registered[3].name
    /\ registered[1].name # registered[2].name
    /\ Cardinality(registry.entries) = 2 /\ registry.counter = 2
    /\ Cardinality(ImageObjects) = 2

-----------------------------------------------------------------------------
(* Properties of the draw entry points and of pagination *)

EntryPoints ==
    {"draw_table", "draw_table_with_hook", "draw_table_with_pagination",
     "draw_table_with_pagination_and_hook"}

Paginated ==
    op \in {"draw_table_with_pagination",
            "draw_table_with_pagination_and_hook"}

PaginatedDone == pc = "done" /\ Paginated /\ result.ok

\* The row groups drawn, in the order they were emitted
Groups == doc.contents

RowCount == Len(table.rows)

Indices(n) == [i \in 1..n |-> i - 1]

InGroup(r, k) == \E j \in 1..Len(Groups[k].rows) : Groups[k].rows[j] = r

HeadersRepeat == table.style.repeat_headers /\ table.header_rows > 0

\* The rows of group k other than header rows repeated at its top.  Row 0
\* is always on the first page, so a later group that starts with row 0
\* starts with the repeated header rows.
NaturalRows(k) ==
    IF k > 1 /\ HeadersRepeat /\ Groups[k].rows[1] = 0
    THEN SubSeq(Groups[k].rows, table.header_rows + 1, Len(Groups[k].rows))
    ELSE Groups[k].rows

\* C1 as stated: every row index is in exactly one page's row group, and
\* every index of a group is smaller than every index of the next group.
C1_EveryRowInOneGroup ==
    PaginatedDone =>
        /\ \A r \in 0..(RowCount - 1) :
             Cardinality({k \in 1..Len(Groups) : InGroup(r, k)}) = 1
        /\ \A k \in 1..(Len(Groups) - 1) :
             \A i \in 1..Len(Groups[k].rows) :
               \A j \in 1..Len(Groups[k + 1].rows) :
                 Groups[k].rows[i] < Groups[k + 1].rows[j]

\* C1: leaving aside the header rows repeated at the top of continuation
\* pages, every row index is in exactly one page's row group, the groups
\* hold the indices 0..n-1 in increasing order, each group is drawn once and
\* on a page of its own, and none is empty.
C1_EveryRowOnceBesideHeaders ==
    PaginatedDone =>
        /\ Concat([k \in 1..Len(Groups) |-> NaturalRows(k)])
             = Indices(RowCount)
        /\ \A k \in 1..Len(Groups) :
             Groups[k].page = k /\ NaturalRows(k) # <<>>
        /\ Len(Groups) = Len(page_ids) /\ doc.pages = Len(page_ids)

C1_Witness ==
    /\ PaginatedDone /\ HeadersRepeat
    /\ Len(Groups) >= 3
    /\ Groups[2].rows[1] = 0 /\ Groups[3].rows[1] = 0

BreakRow(k) == Groups[k - 1].rows[Len(Groups[k - 1].rows)] + 1

UsableHeight ==
    (IF table.style.page_height = None THEN 842
     ELSE Unwrap(table.style.page_height))
      - table.style.top_margin - table.style.bottom_margin

NoRowTooTall ==
    \A r \in 1..RowCount : layout.row_heights[r] <= UsableHeight

\* The bottom edge of the j-th row of group k
BottomEdge(k, j) ==
    Groups[k].y
      - SumSeq([i \in 1..j |-> layout.row_heights[Groups[k].rows[i] + 1]])

NothingBelowBottomMargin ==
    \A k \in 2..Len(Groups) :
        \A j \in 1..Len(Groups[k].rows) :
            BottomEdge(k, j) >= table.style.bottom_margin

\* C3 as stated: when no row is taller than the usable page height, no row
\* of a continuation page ends below the bottom margin.
C3_ContinuationAboveBottomMargin ==
    (PaginatedDone /\ NoRowTooTall) => NothingBelowBottomMargin

\* With header repetition, the header rows and any one further row fit in
\* the usable page height together
HeadersLeaveRoom ==
    HeadersRepeat =>
        \A r \in (table.header_rows + 1)..RowCount :
            SumSeq([i \in 1..table.header_rows |-> layout.row_heights[i]])
              + layout.row_heights[r] <= UsableHeight

\* C3: when no row is taller than the usable page height and, with header
\* repetition, the header rows together with any one other row are not
\* taller than it either, no row of a continuation page ends below the
\* bottom margin.
C3_AboveBottomMarginWhenHeadersFit ==
    (PaginatedDone /\ NoRowTooTall /\ HeadersLeaveRoom)
        => NothingBelowBottomMargin

C3_Witness ==
    /\ PaginatedDone /\ NoRowTooTall /\ HeadersLeaveRoom /\ HeadersRepeat
    /\ table.style.page_height = Some(200)
    /\ Len(Groups) >= 3
    /\ Groups[3].rows[1] = 0
    /\ NothingBelowBottomMargin

\* C4: the first page's row group is drawn with its top edge at the
\* caller's y, and every continuation page's at page_height - top_margin,
\* page_height being 842 when unset; the rows left after the loop are drawn
\* so too.
C4_GroupAnchors ==
    Paginated =>
        /\ \A k \in 1..Len(Groups) :
             Groups[k].y =
               IF Groups[k].page = StartPage THEN start_y
               ELSE (IF table.style.page_height = None THEN 842
                     ELSE Unwrap(table.style.page_height))
                      - table.style.top_margin
        /\ PaginatedDone =>
             /\ Len(Groups) = Len(page_ids)
             /\ Groups[Len(Groups)].page = page_ids[Len(page_ids)]

C4_Witness ==
    /\ PaginatedDone
    /\ table.style.page_height = None /\ table.style.top_margin = 40
    /\ Len(Groups) = 2
    /\ Groups[1].y = start_y /\ Groups[2].y = 802

\* The pages create_new_page added to the document, in creation order
CreatedPages == [i \in 1..(doc.pages - InitialDoc.pages) |->
                   InitialDoc.pages + i]

LastGroup == Groups[Len(Groups)]

\* C12: draw_table_paginated returns page_ids = the starting page followed
\* by the created pages in creation order, without duplicates; total_pages
\* = the length of page_ids = the number of row groups emitted; and
\* final_position = (start x, y) where y is the last page's anchor (the
\* start y when one page was used, page_height - top_margin otherwise)
\* minus the summed heights of the rows placed on the last page, repeated
\* headers included.
C12_PagedResult ==
    PaginatedDone =>
        /\ paged # None
        /\ Unwrap(paged).page_ids = <<StartPage>> \o CreatedPages
        /\ \A i, j \in 1..Len(Unwrap(paged).page_ids) :
              i # j => Unwrap(paged).page_ids[i] # Unwrap(paged).page_ids[j]
        /\ Unwrap(paged).total_pages = Len(Unwrap(paged).page_ids)
        /\ Unwrap(paged).total_pages = Len(Groups)
        /\ Unwrap(paged).final_position =
              << start_x,
                 (IF Unwrap(paged).total_pages = 1 THEN start_y
                  ELSE PageHeight(table) - table.style.top_margin)
                   - HeightsOf(layout.row_heights, LastGroup.rows) >>

C12_Witness ==
    /\ PaginatedDone
    /\ Unwrap(paged).page_ids = <<1, 2, 3>>
    /\ Unwrap(paged).total_pages = 3
    /\ HeadersRepeat /\ LastGroup.rows[1] = 0 /\ Len(LastGroup.rows) >= 2
    /\ Unwrap(paged).final_position[2]
         = PageHeight(table) - table.style.top_margin
             - HeightsOf(layout.row_heights, LastGroup.rows)

WithHook ==
    /\ op \in {"draw_table_with_hook", "draw_table_with_pagination_and_hook"}
    /\ hooked /\ result.ok

\* The column a cell starts in: the columns the cells before it span
StartingColumn(cells, j) ==
    SumSeq([i \in 1..(j - 1) |-> Max(cells[i].colspan, 1)])

\* The (row, col, is_header) of the cells of row index row, left to right
CellsOfRow(row) ==
    [j \in 1..Len(table.rows[row + 1].cells) |->
        <<row, StartingColumn(table.rows[row + 1].cells, j),
          row < table.header_rows>>]

\* The cells emitted so far: page by page, row by row, left to right
EmittedCells ==
    Concat([k \in 1..Len(Groups) |->
              Concat([i \in 1..Len(Groups[k].rows) |->
                        CellsOfRow(Groups[k].rows[i])])])

\* C13: with a hook, begin_cell and end_cell are each invoked exactly once
\* per emitted cell, begin then end for the same (row, col) with no other
\* hook call in between, in row-major order, col being the cell's starting
\* column and is_header being row < header_rows.
C13_HookCallsPerCell ==
    WithHook =>
        /\ Len(hook_calls) = 2 * Len(EmittedCells)
        /\ \A i \in 1..Len(EmittedCells) :
              /\ hook_calls[2 * i - 1] = <<"begin_cell">> \o EmittedCells[i]
              /\ hook_calls[2 * i] = <<"end_cell">> \o EmittedCells[i]

C13_Witness ==
    /\ WithHook /\ pc = "done"
    /\ op = "draw_table_with_pagination_and_hook"
    /\ Len(Groups) = 2 /\ Groups[2].rows = <<0, 1>>
    /\ Len(hook_calls) = 12
    /\ hook_calls[3] = <<"begin_cell", 0, 2, TRUE>>
    /\ hook_calls[8] = <<"end_cell", 0, 2, TRUE>>
    /\ hook_calls[11] = <<"begin_cell", 1, 1, FALSE>>

\* What the non-semantic blocks draw: the table background, a row
\* background, the border grid, a cell's border overrides
NonSemanticBlocks == {"table_bg", "row_bg", "grid", "cell_border"}

IsMark(operation) == operation.operator \in {"BDC", "EMC"}

IsArtifactBDC(operation) ==
    /\ operation.operator = "BDC"
    /\ operation.operands # <<>>
    /\ operation.operands[1] = Name("Artifact")

IsCellBDC(operation) ==
    operation.operator = "BDC" /\ ~IsArtifactBDC(operation)

\* The object is an operand of block what
Labelled(object, what) == object[1] = "Operand" /\ object[2] = what

\* The operation draws a part of block what
Draws(operation, what) ==
    \E j \in 1..Len(operation.operands) :
        Labelled(operation.operands[j], what)

IsNonSemantic(operation) ==
    \E what \in NonSemanticBlocks : Draws(operation, what)

\* Operations b..e of ops are a marked-content section with nothing
\* marked inside it
IsSection(ops, b, e) ==
    /\ b < e
    /\ ops[b].operator = "BDC" /\ ops[e].operator = "EMC"
    /\ \A j \in (b + 1)..(e - 1) : ~IsMark(ops[j])

\* BDC operations minus EMC operations among the first i
Depth(ops, i) ==
    Cardinality({j \in 1..i : ops[j].operator = "BDC"})
      - Cardinality({j \in 1..i : ops[j].operator = "EMC"})

\* Block what of a page's content is inside exactly one artifact section,
\* which holds nothing else
WrappedOnce(ops, what) ==
    (\E i \in 1..Len(ops) : Draws(ops[i], what)) =>
        \E b, e \in 1..Len(ops) :
            /\ IsSection(ops, b, e) /\ IsArtifactBDC(ops[b])
            /\ \A i \in 1..Len(ops) :
                  Draws(ops[i], what) => (b < i /\ i < e)
            /\ \A j \in (b + 1)..(e - 1) :
                  \A n \in 1..Len(ops[j].operands) :
                      Labelled(ops[j].operands[n], what)

\* Nothing non-semantic between a cell's BDC and its EMC
CellSectionsSemantic(ops) ==
    \A b \in 1..Len(ops) :
        IsCellBDC(ops[b]) =>
            \E e \in 1..Len(ops) :
                /\ IsSection(ops, b, e)
                /\ \A j \in (b + 1)..(e - 1) : ~IsNonSemantic(ops[j])

\* As many BDC as EMC, and never one section inside another
Balanced(ops) ==
    /\ \A i \in 1..Len(ops) : Depth(ops, i) \in {0, 1}
    /\ Depth(ops, Len(ops)) = 0

\* C14: in hook mode every non-empty non-semantic block (table background,
\* row background, border grid, cell border overrides) is wrapped in
\* exactly one BDC /Artifact ... EMC pair and none lies between a cell's
\* begin_cell output and its end_cell output; with a hook that emits one
\* BDC per begin_cell and one EMC per end_cell the page content has as many
\* BDC as EMC and its marked-content sections are never nested.
C14_ArtifactsOutsideCells ==
    WithHook =>
        \A k \in 1..Len(Groups) :
            /\ \A what \in NonSemanticBlocks :
                  WrappedOnce(Groups[k].ops, what)
            /\ Cardinality({i \in 1..Len(Groups[k].ops) :
                               IsArtifactBDC(Groups[k].ops[i])})
                 = Cardinality({what \in NonSemanticBlocks :
                      \E i \in 1..Len(Groups[k].ops) :
                          Draws(Groups[k].ops[i], what)})
            /\ CellSectionsSemantic(Groups[k].ops)
            /\ Balanced(Groups[k].ops)

C14_Witness ==
    /\ WithHook /\ pc = "done"
    /\ Len(Groups) = 2
    /\ \A what \in NonSemanticBlocks :
          \E i \in 1..Len(Groups[2].ops) : Draws(Groups[2].ops[i], what)
    /\ Cardinality({i \in 1..Len(Groups[2].ops) :
                       IsArtifactBDC(Groups[2].ops[i])}) = 4
    /\ Cardinality({i \in 1..Len(Groups[2].ops) :
                       IsCellBDC(Groups[2].ops[i])}) = 4
    /\ \E i \in 1..Len(Groups[2].ops) : Draws(Groups[2].ops[i], "cell_bg")

\* The font resources the Tf instructions of an object list name, in order
RECURSIVE TfFontNames(_)
TfFontNames(objects) ==
    IF Len(objects) < 2 THEN <<>>
    ELSE (IF objects[1] = Name("Tf") /\ objects[2][1] = "Name"
          THEN <<objects[2][2]>> ELSE <<>>)
         \o TfFontNames(Tail(objects))

HasText(cell) == cell.content # <<>>

\* The cells with text of the rows of page k, row by row, left to right
TextCells(k) ==
    Concat([i \in 1..Len(Groups[k].rows) |->
              SelectSeq(table.rows[Groups[k].rows[i] + 1].cells, HasText)])

\* The built-in resource of a font name
BuiltInResource(font_name, bold) ==
    CASE font_name = "Helvetica" -> IF bold THEN "F1-Bold" ELSE "F1"
      [] font_name = "Courier" -> IF bold THEN "F2-Bold" ELSE "F2"
      [] font_name = "Times-Roman" -> IF bold THEN "F3-Bold" ELSE "F3"
      [] OTHER -> IF bold THEN "F1-Bold" ELSE "F1"

\* The resource by the priority order: the cell's own, the table's bold
\* one for a bold cell, the table's default one, the built-in mapping
ResourceByPriority(cell) ==
    IF cell.embedded_font_resource_name # None
    THEN Unwrap(cell.embedded_font_resource_name)
    ELSE IF cell.bold /\ table.style.embedded_font_resource_name_bold # None
    THEN Unwrap(table.style.embedded_font_resource_name_bold)
    ELSE IF table.style.embedded_font_resource_name # None
    THEN Unwrap(table.style.embedded_font_resource_name)
    ELSE BuiltInResource(IF cell.font_name # None
                         THEN Unwrap(cell.font_name)
                         ELSE table.style.font_name,
                         cell.bold)

\* C15: the font resource named in a cell's Tf instruction is the cell's
\* own embedded font resource if set; else, for a bold cell, the table's
\* bold embedded resource if set; else the table's default embedded
\* resource if set; else the built-in mapping of the cell's (or table's)
\* font name, Helvetica/Courier/Times-Roman to F1/F2/F3, with the -Bold
\* suffix for bold cells and F1 for unknown names.
C15_FontResourcePriority ==
    \A k \in 1..Len(Groups) :
        TfFontNames(Groups[k].objects)
          = [i \in 1..Len(TextCells(k)) |->
               ResourceByPriority(TextCells(k)[i])]

C15_Witness ==
    /\ pc = "done" /\ result.ok /\ Len(Groups) >= 1
    /\ table.rows[1].cells[1].bold
    /\ table.rows[1].cells[1].embedded_font_resource_name = None
    /\ table.style.embedded_font_resource_name_bold = None
    /\ table.style.embedded_font_resource_name = Some("EF0")
    /\ TfFontNames(Groups[1].objects)[1] = "EF0"
    /\ TfFontNames(Groups[1].objects)[2] = "EF0"

\* C10: when the table fails validation, each of the four entry points
\* returns the InvalidTable error and leaves the document as it was: nothing
\* is added to a page, no page is created and no hook is invoked.
C10_RejectedTableLeavesDocument ==
    (op \in EntryPoints /\ Rejected(table)) =>
        /\ pc = "done"
        /\ ~result.ok /\ result.err = "InvalidTable"
        /\ doc = InitialDoc
        /\ hook_calls = <<>>
        /\ page_ids = <<>>

C10_Witness ==
    /\ op = "draw_table_with_pagination_and_hook" /\ hooked
    /\ pc = "done"
    /\ Rejected(table) /\ table.rows # <<>>
    /\ result.err = "InvalidTable"
    /\ doc = InitialDoc /\ hook_calls = <<>>


-----------------------------------------------------------------------------
(* draw_table_paginated with rows taller than a page: the loop of
   src/src/drawing.rs 979-1046 under weak fairness of its steps *)

\* Tables of one-cell rows, some taller than the usable height of 100
IsTallRowTable(t) ==
    \E n \in 1..(MaxDrawRows - 1) :
      \E heights \in SeqsOfLen({30, 60, 120}, n),
         header_rows \in 0..2,
         repeat_headers \in BOOLEAN :
        t = FixedHeightTable(heights, header_rows, repeat_headers,
                             Some(200), DEFAULT_MARGIN)

InitPaginate ==
    /\ pc = "start"
    /\ IsTallRowTable(table)
    /\ start_x = 50
    /\ start_y \in {110, 150}
    /\ op = "none" /\ hooked = FALSE
    /\ layout = NoLayout(Ok) /\ result = Ok
    /\ doc = InitialDoc /\ hook_calls = <<>>
    /\ NoPagination /\ NoWrap /\ NoImages /\ NoTokens

\* ENABLED <<BreakPage>>_vars: the row at hand does not fit, and the step
\* changes row_idx
BreakDue ==
    /\ pc = "paginate" /\ row_idx < Len(table.rows)
    /\ NeedsBreak(current_y, layout.row_heights[row_idx + 1],
                  table.style.bottom_margin, rows_on_current_page)

\* ENABLED <<FinishPagination>>_vars: the loop has ended, and the step
\* changes pc
LoopEnded == pc = "paginate" /\ row_idx >= Len(table.rows)

\* WF_vars(BreakPage) and WF_vars(FinishPagination) with ENABLED written
\* out as BreakDue and LoopEnded
BreakFairness == []<>(~BreakDue) \/ []<><<BreakPage>>_vars

FinishFairness == []<>(~LoopEnded) \/ []<><<FinishPagination>>_vars

\* The call runs on the caller's thread and nothing suspends it: every turn
\* of the loop and the steps after it are taken
SpecPaginate ==
    /\ InitPaginate /\ [][Next]_vars
    /\ WF_vars(PlaceRow) /\ BreakFairness /\ FinishFairness

\* The loop is at the test of its next row
AtRow == pc = "paginate" /\ row_idx < Len(table.rows)

\* The row does not fit: its bottom edge would be below bottom_margin
BelowBottomMargin ==
    current_y - layout.row_heights[row_idx + 1] < table.style.bottom_margin

\* The row group emitted by the step, if it emitted one
Emitted(d, e) ==
    /\ Len(e.contents) = Len(d.contents) + 1
    /\ SubSeq(e.contents, 1, Len(d.contents)) = d.contents

\* C26: a page break occurs immediately before row r if and only if the
\* current page already holds at least one row and placing r would put its
\* bottom edge below bottom_margin; a row that fits is never deferred and a
\* row that does not fit on an empty page is placed there anyway.  At a
\* break the accumulated rows are emitted to the current page, the new page
\* is created, the cursor is reset to page_height - top_margin, the headers
\* are pre-seeded and r is placed.
C26_BreakExactlyWhenRowOverflows ==
    [][AtRow =>
         /\ (page_ids' # page_ids)
               <=> (rows_on_current_page # <<>> /\ BelowBottomMargin)
         /\ (page_ids' = page_ids) =>
               /\ rows_on_current_page' = Append(rows_on_current_page, row_idx)
               /\ current_y' = current_y - layout.row_heights[row_idx + 1]
               /\ doc' = doc
         /\ (page_ids' # page_ids) =>
               /\ Emitted(doc, doc')
               /\ doc'.contents[Len(doc'.contents)].page
                     = page_ids[Len(page_ids)]
               /\ doc'.contents[Len(doc'.contents)].rows
                     = rows_on_current_page
               /\ doc'.pages = doc.pages + 1
               /\ page_ids' = Append(page_ids, doc'.pages)
               /\ rows_on_current_page'
                     = Append(SeedHeaders(table, row_idx), row_idx)
               /\ current_y'
                     = PageHeight(table) - table.style.top_margin
                         - HeightsOf(layout.row_heights,
                                     SeedHeaders(table, row_idx))
                         - layout.row_heights[row_idx + 1]]_vars

\* A first row placed on the empty first page although it does not fit, a
\* second row ending exactly on the bottom margin of the next page, and a
\* break before the third
C26_Witness ==
    /\ pc = "paginate" /\ row_idx = 3
    /\ start_y = 110
    /\ layout.row_heights = <<120, 60, 30>>
    /\ table.header_rows = 0
    /\ Len(page_ids) = 2
    /\ Len(doc.contents) = 1 /\ doc.contents[1].rows = <<0>>
    /\ rows_on_current_page = <<1, 2>>
    /\ current_y = 60

\* C27: draw_table_paginated terminates for every table, rows taller than
\* the usable page height and header rows that alone overfill a page
\* included: the row index advances by one on every loop iteration, at most
\* n - 1 pages are created for n rows, and every page of page_ids receives
\* exactly one emitted row group, which holds at least one naturally
\* assigned row.
C27_PaginationTerminates ==
    /\ (pc = "paginate") ~> (pc = "done")
    /\ [][AtRow => row_idx' = row_idx + 1]_vars
    /\ [](pc = "paginate" => Len(page_ids) - 1 <= Max(row_idx - 1, 0))
    /\ [](PaginatedDone =>
            /\ Len(page_ids) <= RowCount
            /\ Len(Groups) = Len(page_ids)
            /\ \A k \in 1..Len(Groups) :
                  /\ Groups[k].page = page_ids[k]
                  /\ NaturalRows(k) # <<>>)

\* Two header rows of 120 and 60 points that overfill every page, repeated
\* above a row of 120 points
C27_Witness ==
    /\ PaginatedDone
    /\ layout.row_heights = <<120, 60, 120>>
    /\ table.header_rows = 2 /\ table.style.repeat_headers
    /\ Len(page_ids) = 3
    /\ Groups[3].rows = <<0, 1, 2>>
    /\ Unwrap(paged).final_position[2] < 0

-----------------------------------------------------------------------------
(* Emission: calculate_layout, register_all_images,
   generate_table_operations and draw_table_paginated on one table at one
   position, the two draws with the same hook and the same registry *)

\* The bold face of TtfMetrics: wider letters, other glyph ids
BoldTtfMetrics ==
    [units_per_em |-> 10,
     advance |-> [c \in Letters \cup {SP} |->
                    CASE c = "Z" -> Some(0) [] c = "E" -> Some(8)
                      [] c = SP -> Some(3) [] OTHER -> Some(6)],
     glyph_index |-> [c \in Letters \cup {SP} |->
                        CASE c = "A" -> Some(136) [] c = "B" -> Some(137)
                          [] c = "E" -> Some(140) [] c = "Z" -> Some(400)
                          [] OTHER -> Some(103)]]

\* "A\nB" and "A B E"
TextContents == { <<"A", NL, "B">>, <<"A", SP, "B", SP, "E">> }

\* Three columns: the first row's first cell spans two of them and is
\* followed by a cell with the text "A B E"; the first cell's text, wrapping,
\* weight, alignment and padding and the table's fonts vary
IsTextTable(t) ==
    \E wrap \in BOOLEAN, bold \in BOOLEAN,
       alignment \in {"Left", "Center", "Right"},
       content \in TextContents,
       pad \in {None, Some(UniformPadding(8))},
       fm \in {None, Some(TtfMetrics)},
       bm \in {None, Some(BoldTtfMetrics)},
       resource \in {None, Some("EF0")},
       bold_resource \in {None, Some("EF0B")} :
        t = [NewTable(
               << NewRow(<< [NewCell(content, 2)
                               EXCEPT !.text_wrap = wrap, !.bold = bold,
                                      !.alignment = alignment,
                                      !.padding = pad],
                            [NewCell(<<"A", SP, "B", SP, "E">>, 1)
                               EXCEPT !.text_wrap = wrap] >>),
                  NewRow(<< NewCell(<<"A">>, 1),
                            NewCell(<<"A", "B">>, 2) >>) >>)
               EXCEPT !.font_metrics = fm, !.bold_font_metrics = bm,
                      !.style.embedded_font_resource_name = resource,
                      !.style.embedded_font_resource_name_bold =
                          bold_resource]

\* The images of a cell: none, one, one with an overlay, two side by side
PictureChoices ==
    { <<>>,
      <<[ptr |-> 1, bytes |-> "x", overlay |-> FALSE]>>,
      <<[ptr |-> 1, bytes |-> "x", overlay |-> TRUE]>>,
      <<[ptr |-> 1, bytes |-> "x", overlay |-> FALSE],
        [ptr |-> 3, bytes |-> "y", overlay |-> TRUE]>> }

\* Three columns with backgrounds, a border grid, a border override and
\* images in the cells that span two columns
IsPictureTable(t) ==
    \E border_style \in {"Solid", "None"},
       table_bg \in {None, Some("gray")},
       row_bg \in {None, Some("gray")},
       cell_bg \in {None, Some("gray")},
       border \in {None, Some("Solid")},
       images \in PictureChoices,
       header_rows \in 0..1 :
        t = [NewTable(
               << [NewRow(<< [NewCell(<<"A">>, 2)
                                EXCEPT !.background_color = cell_bg,
                                       !.images = images],
                             [NewCell(<<"B">>, 1)
                                EXCEPT !.border = border] >>)
                     EXCEPT !.background_color = row_bg],
                  NewRow(<< NewCell(<<>>, 1),
                            [NewCell(<<"B">>, 2)
                               EXCEPT !.images = images] >>) >>)
               EXCEPT !.header_rows = header_rows,
                      !.style.border_style = border_style,
                      !.style.background_color = table_bg]

InitEmit ==
    /\ pc = "start" /\ op = "none"
    /\ \/ IsTextTable(table) /\ hooked = FALSE /\ start_y = 700
       \/ IsPictureTable(table) /\ hooked \in BOOLEAN /\ start_y \in {80, 700}
    /\ start_x = 50
    /\ layout = NoLayout(Ok) /\ result = Ok
    /\ doc = InitialDoc /\ hook_calls = <<>>
    /\ NoPagination /\ NoWrap /\ NoImages /\ NoTokens

\* register_all_images, up to its loop
RegisterAllImagesCall ==
    /\ pc = "done" /\ op = "calculate_layout" /\ result.ok
    /\ op' = "register_all_images"
    /\ registry' = NewImageXObjects /\ registered' = <<>>
    /\ pc' = "register"
    /\ UNCHANGED <<table, start_x, start_y, hooked, layout, result, doc,
                   hook_calls, paginationVars, paged, wrapVars, tokenVars>>

\* generate_table_operations(table, &layout, position, hook, Some(&registry))
GenerateTableOperationsCall ==
    /\ pc = "done" /\ op = "register_all_images" /\ layout.status.ok
    /\ layout.column_widths # <<>>
    /\ op' = "generate_table_operations"
    /\ flat' = GenerateTableOperations(table, layout,
                   <<FInt(start_x), start_y>>, hooked, registry)
    /\ hook_calls' =
         hook_calls \o
         HookCalls(table, AllRows(table), hooked, Len(layout.column_widths))
    /\ UNCHANGED <<pc, table, start_x, start_y, hooked, layout, result, doc,
                   paginationVars, paged, wrapVars, ops_in, ops_out,
                   imageVars>>

\* draw_table_paginated(doc, page_id, table, &layout, position, hook,
\* Some(&registry)), up to its loop
DrawTablePaginatedCall ==
    /\ pc = "done" /\ op = "generate_table_operations"
    /\ op' = "draw_table_paginated"
    /\ pc' = "paginate"
    /\ page_ids' = <<StartPage>>
    /\ current_y' = start_y
    /\ rows_on_current_page' = <<>>
    /\ row_idx' = 0
    /\ UNCHANGED <<table, start_x, start_y, hooked, layout, result, doc,
                   hook_calls, paged, wrapVars, tokenVars, imageVars>>

NextEmit ==
    \/ CalculateLayoutCall
    \/ RegisterAllImagesCall
    \/ RegisterImage
    \/ FinishRegistration
    \/ GenerateTableOperationsCall
    \/ DrawTablePaginatedCall
    \/ PlaceRow
    \/ BreakPage
    \/ FinishPagination

SpecEmit == InitEmit /\ [][NextEmit]_vars

\* generate_table_operations has returned
Generated == op \in {"generate_table_operations", "draw_table_paginated"}

\* draw_table_paginated has returned
PaginatedDrawn == pc = "done" /\ op = "draw_table_paginated"

\* The position of both draws
Position == <<FInt(start_x), start_y>>

\* The object lists emitted: flat, and those of the pages
Streams ==
    (IF Generated THEN {flat} ELSE {})
    \cup (IF op = "draw_table_paginated"
          THEN {doc.contents[k].objects : k \in 1..Len(doc.contents)}
          ELSE {})


\* The k-th least of a set of places
PlaceNo(places, k) ==
    CHOOSE i \in places : Cardinality({j \in places : j < i}) = k - 1

\* The places of the strings shown by a Tj
ShownPlaces(objects) ==
    {i \in 2..Len(objects) :
        objects[i - 1] = Name("Tj") /\ objects[i][1] = "String"}

\* The strings shown by the Tj of an object list, in order
ShownStrings(objects) ==
    [k \in 1..Cardinality(ShownPlaces(objects)) |->
        objects[PlaceNo(ShownPlaces(objects), k)]]

\* The cells of row r (from 1) that the row loop reaches
DrawnCells(r) ==
    {j \in 1..Len(table.rows[r].cells) :
        StartingColumn(table.rows[r].cells, j) < Len(layout.column_widths)}

\* The width the emitter gives cell j of row r
EmittedWidth(r, j) ==
    CalculateCellWidth(StartingColumn(table.rows[r].cells, j),
                       table.rows[r].cells[j].colspan, layout.column_widths)

\* The text lines the emitter draws for cell j of row r
EmittedLines(r, j) ==
    IF table.rows[r].cells[j].content = <<>> THEN <<>>
    ELSE CellLines(table, table.rows[r].cells[j], EmittedWidth(r, j))

\* Row r is high enough for the text block of its cell j: its lines of
\* font_size * 1.2 each and the padding above and below
HoldsTextBlock(r, j) ==
    layout.row_heights[r] * LINE_HEIGHT_DEN
      >= Len(EmittedLines(r, j))
           * CellFontSize(table, table.rows[r].cells[j]) * LINE_HEIGHT_NUM
         + (CellPadding(table, table.rows[r].cells[j]).top
              + CellPadding(table, table.rows[r].cells[j]).bottom)
           * LINE_HEIGHT_DEN

\* C28: layout and emission agree on every cell's text block: for every row
\* without an explicit height and every cell in it, the row height computed
\* by calculate_row_heights is at least the number of text lines the emitter
\* draws for the cell times font_size * 1.2, plus the top and bottom
\* padding; also for colspanned cells and the cells after them, for cells
\* with their own padding, and for non-wrapping cells with line breaks.
C28_RowHoldsEveryTextBlock ==
    Generated =>
        \A r \in 1..Len(table.rows) :
            table.rows[r].height = None =>
                \A j \in DrawnCells(r) : HoldsTextBlock(r, j)

\* A non-wrapping cell "A\nB": the row is one line high, 10 * 1.2 + 5 + 5,
\* and the emitter draws two lines in it
C28_Witness ==
    /\ Generated
    /\ table.font_metrics = None /\ table.bold_font_metrics = None
    /\ table.rows[1].cells[1].content = <<"A", NL, "B">>
    /\ ~table.rows[1].cells[1].text_wrap
    /\ table.rows[1].cells[1].padding = None
    /\ layout.row_heights[1] = 22
    /\ EmittedLines(1, 1) = << <<"A">>, <<"B">> >>
    /\ SubSeq(ShownStrings(flat), 1, 2)
         = <<StringLiteral(<<"A">>), StringLiteral(<<"B">>)>>
    /\ ~HoldsTextBlock(1, 1)

\* The text blocks that fit: the cells that wrap or have no line break, have
\* the table's padding and are measured by the layout against the columns
\* they are drawn in
MeasuredWhereDrawn(r, j) ==
    /\ table.rows[r].cells[j].padding = None
    /\ table.rows[r].cells[j].text_wrap
         \/ Len(SplitNewline(table.rows[r].cells[j].content)) = 1
    /\ StartingColumn(table.rows[r].cells, j) = j - 1
    /\ table.rows[r].cells[j].colspan <= 1

C28_RowHoldsTextBlocksMeasuredWhereDrawn ==
    Generated =>
        \A r \in 1..Len(table.rows) :
            table.rows[r].height = None =>
                \A j \in DrawnCells(r) :
                    MeasuredWhereDrawn(r, j) => HoldsTextBlock(r, j)

\* The first index from i on at which the object stands, 0 when there is none
RECURSIVE IndexFrom(_, _, _)
IndexFrom(objects, object, i) ==
    IF i > Len(objects) THEN 0
    ELSE IF objects[i] = object THEN i
    ELSE IndexFrom(objects, object, i + 1)

\* The first BT ... ET of an object list that has one
FirstTextBlock(objects) ==
    SubSeq(objects, IndexFrom(objects, Name("BT"), 1),
           IndexFrom(objects, Name("ET"), 1))

\* The font resource named in the Tf of a text block
TfName(block) == block[IndexFrom(block, Name("Tf"), 1) + 1]

\* The lines as the Tj strings of the metrics' encoding
EncodedWith(metrics, lines) ==
    [k \in 1..Len(lines) |->
        StringHexadecimal(EncodeText(Unwrap(metrics), lines[k]))]

\* The first cell of the first row is bold, has text and no embedded font of
\* its own, and its text is emitted in encoded form
BoldCellEncoded ==
    /\ Generated
    /\ table.rows[1].cells[1].bold
    /\ table.rows[1].cells[1].content # <<>>
    /\ table.rows[1].cells[1].embedded_font_resource_name = None
    /\ \A k \in 1..Len(ShownStrings(FirstTextBlock(flat))) :
           ShownStrings(FirstTextBlock(flat))[k][2] = "Hexadecimal"

\* The Tf of the first text block names the font resource
TfNames(resource) ==
    resource # None /\ TfName(FirstTextBlock(flat)) = Name(Unwrap(resource))

\* The Tj strings of the first text block are the metrics' encoding of the
\* first cell's lines
EncodedBy(metrics) ==
    /\ metrics # None
    /\ ShownStrings(FirstTextBlock(flat))
         = EncodedWith(metrics, EmittedLines(1, 1))

\* C30: whenever a bold cell's text is emitted in encoded form using a
\* table-level embedded font, the metrics that encode it belong to the font
\* of the resource named in Tf: the bold metrics together with the table's
\* bold embedded resource and the regular metrics together with the table's
\* regular embedded resource, for every combination of present and absent
\* bold resource and bold metrics.
C30_MetricsOfTheNamedFont ==
    BoldCellEncoded =>
        /\ TfNames(table.style.embedded_font_resource_name_bold)
             => EncodedBy(table.bold_font_metrics)
        /\ TfNames(table.style.embedded_font_resource_name)
             => EncodedBy(table.font_metrics)

\* A bold cell "A\nB" of a table with a bold embedded resource and regular
\* metrics only: Tf names the bold font and the bytes are the regular font's
\* glyph ids 36 and 37
C30_Witness ==
    /\ BoldCellEncoded
    /\ table.rows[1].cells[1].content = <<"A", NL, "B">>
    /\ ~table.rows[1].cells[1].text_wrap
    /\ table.style.embedded_font_resource_name_bold = Some("EF0B")
    /\ table.bold_font_metrics = None
    /\ table.font_metrics = Some(TtfMetrics)
    /\ TfName(FirstTextBlock(flat)) = Name("EF0B")
    /\ ShownStrings(FirstTextBlock(flat))
         = <<StringHexadecimal(<<0, 36>>), StringHexadecimal(<<0, 37>>)>>

\* The bold resource and the bold metrics are both there or both absent
BoldFontComplete ==
    (table.style.embedded_font_resource_name_bold = None)
        <=> (table.bold_font_metrics = None)

\* With a bold font that is complete or absent, resource and metrics belong
\* to one font
C30_MetricsOfTheNamedFontWhenComplete ==
    BoldCellEncoded /\ BoldFontComplete =>
        /\ TfNames(table.style.embedded_font_resource_name_bold)
             => EncodedBy(table.bold_font_metrics)
        /\ TfNames(table.style.embedded_font_resource_name)
             => EncodedBy(table.font_metrics)

\* The places of the operands of a Td
TextPositionPlaces(objects) ==
    {i \in 2..Len(objects) :
        objects[i - 1] = Name("Td") /\ Labelled(objects[i], "text_position")}

\* The operands of the Td of an object list, in order
TextPositions(objects) ==
    [k \in 1..Cardinality(TextPositionPlaces(objects)) |->
        objects[PlaceNo(TextPositionPlaces(objects), k)][3]]

\* The x of every line of a text block: the first Td is absolute and every
\* other one is relative to the line before
RECURSIVE LineXs(_)
LineXs(positions) ==
    IF positions = <<>> THEN <<>>
    ELSE IF Len(positions) = 1 THEN <<positions[1][1]>>
    ELSE LET before == LineXs(SubSeq(positions, 1, Len(positions) - 1))
         IN  Append(before,
                    FAdd(before[Len(before)], positions[Len(positions)][1]))

\* The metrics that measure a cell's text if widths are measured exactly
\* when the text is encoded
MetricsWhenEncoded(t, cell) ==
    IF UseEncodedText(t, cell) THEN MetricsForCell(t, cell) ELSE None

\* The lines of a cell wrapped with those metrics
LinesWhenEncoded(t, cell, width) ==
    IF cell.text_wrap
    THEN (IF MetricsWhenEncoded(t, cell) # None
          THEN WrapTextWithMetrics(cell.content,
                   FFloor(FSub(width, FInt(CellPadding(t, cell).left
                                             + CellPadding(t, cell).right))),
                   CellFontSize(t, cell),
                   Unwrap(MetricsWhenEncoded(t, cell)))
          ELSE WrapText(cell.content,
                   FFloor(FSub(width, FInt(CellPadding(t, cell).left
                                             + CellPadding(t, cell).right))),
                   CellFontSize(t, cell)))
    ELSE SplitNewline(cell.content)

\* The x of those lines aligned with those metrics
XsWhenEncoded(t, cell, x, width) ==
    [k \in 1..Len(LinesWhenEncoded(t, cell, width)) |->
        TextX(cell.alignment, x, width, CellPadding(t, cell),
              MeasureTextWidth(LinesWhenEncoded(t, cell, width)[k],
                               CellFontSize(t, cell),
                               MetricsWhenEncoded(t, cell)))]

\* The first cell of the first row has text and is drawn without a hook
FirstCellShown ==
    /\ Generated /\ ~hooked
    /\ table.rows[1].cells[1].content # <<>>

\* The text of the first cell is emitted in encoded form
FirstCellEncoded ==
    \A k \in 1..Len(ShownStrings(FirstTextBlock(flat))) :
        ShownStrings(FirstTextBlock(flat))[k][2] = "Hexadecimal"

\* The text of the first cell is emitted as plain text
FirstCellPlain ==
    \A k \in 1..Len(ShownStrings(FirstTextBlock(flat))) :
        ShownStrings(FirstTextBlock(flat))[k][2] = "Literal"

\* C25: a cell's text is emitted as the metrics' byte encoding, with
\* wrapping and alignment using measured widths, exactly when both an
\* embedded font resource and font metrics are present for the cell; in
\* every other case the text is emitted as plain text bytes and wrapping
\* and alignment use the heuristic width, character count * font size * 0.5.
C25_EncodedAndMeasuredTogether ==
    FirstCellShown =>
        /\ FirstCellEncoded <=> UseEncodedText(table, table.rows[1].cells[1])
        /\ FirstCellPlain <=> ~UseEncodedText(table, table.rows[1].cells[1])
        /\ Len(ShownStrings(FirstTextBlock(flat)))
             = Len(LinesWhenEncoded(table, table.rows[1].cells[1],
                                    EmittedWidth(1, 1)))
        /\ \A k \in 1..Len(ShownStrings(FirstTextBlock(flat))) :
               ShownStrings(FirstTextBlock(flat))[k][3]
                 = (IF UseEncodedText(table, table.rows[1].cells[1])
                    THEN EncodeText(
                             Unwrap(MetricsForCell(table,
                                        table.rows[1].cells[1])),
                             LinesWhenEncoded(table, table.rows[1].cells[1],
                                              EmittedWidth(1, 1))[k])
                    ELSE LinesWhenEncoded(table, table.rows[1].cells[1],
                                          EmittedWidth(1, 1))[k])
        /\ LineXs(TextPositions(FirstTextBlock(flat)))
             = XsWhenEncoded(table, table.rows[1].cells[1], FInt(start_x),
                             EmittedWidth(1, 1))

\* Metrics without an embedded font: the centred line "A B E" is plain text
\* and is placed by its measured width, 23, not by the heuristic 25
C25_Witness ==
    /\ FirstCellShown
    /\ table.font_metrics = Some(TtfMetrics)
    /\ table.style.embedded_font_resource_name = None
    /\ table.style.embedded_font_resource_name_bold = None
    /\ ~table.rows[1].cells[1].bold /\ ~table.rows[1].cells[1].text_wrap
    /\ table.rows[1].cells[1].alignment = "Center"
    /\ table.rows[1].cells[1].content = <<"A", SP, "B", SP, "E">>
    /\ ShownStrings(FirstTextBlock(flat))
         = <<StringLiteral(<<"A", SP, "B", SP, "E">>)>>
    /\ TextWidth(TtfMetrics, <<"A", SP, "B", SP, "E">>, 10) = 23
    /\ EstimateTextWidth(<<"A", SP, "B", SP, "E">>, 10) = 25
    /\ LineXs(TextPositions(FirstTextBlock(flat)))
         = <<TextX("Center", FInt(start_x), EmittedWidth(1, 1),
                   table.style.padding, 23)>>
    /\ LineXs(TextPositions(FirstTextBlock(flat)))
         # <<TextX("Center", FInt(start_x), EmittedWidth(1, 1),
                   table.style.padding, 25)>>

\* The x of the lines the emitter draws, aligned with the metrics of the
\* cell whenever there are any
XsWhenMeasured(t, cell, x, width) ==
    [k \in 1..Len(CellLines(t, cell, width)) |->
        TextX(cell.alignment, x, width, CellPadding(t, cell),
              MeasureTextWidth(CellLines(t, cell, width)[k],
                               CellFontSize(t, cell),
                               MetricsForCell(t, cell)))]

\* The text is encoded exactly when resource and metrics are both present,
\* and wrapping and alignment use measured widths whenever metrics are
\* present
C25_EncodedWithBothMeasuredWithMetrics ==
    FirstCellShown =>
        /\ FirstCellEncoded <=> UseEncodedText(table, table.rows[1].cells[1])
        /\ FirstCellPlain <=> ~UseEncodedText(table, table.rows[1].cells[1])
        /\ Len(ShownStrings(FirstTextBlock(flat)))
             = Len(EmittedLines(1, 1))
        /\ \A k \in 1..Len(ShownStrings(FirstTextBlock(flat))) :
               ShownStrings(FirstTextBlock(flat))[k][3]
                 = (IF UseEncodedText(table, table.rows[1].cells[1])
                    THEN EncodeText(
                             Unwrap(MetricsForCell(table,
                                        table.rows[1].cells[1])),
                             EmittedLines(1, 1)[k])
                    ELSE EmittedLines(1, 1)[k])
        /\ LineXs(TextPositions(FirstTextBlock(flat)))
             = XsWhenMeasured(table, table.rows[1].cells[1], FInt(start_x),
                              EmittedWidth(1, 1))

\* The save depth after the first i objects: the q less the Q
DepthAt(objects, i) ==
    Cardinality({k \in 1..i : objects[k] = Name("q")})
      - Cardinality({k \in 1..i : objects[k] = Name("Q")})

\* The places of an object in an object list
PlacesOf(objects, object) == {i \in 1..Len(objects) : objects[i] = object}

\* The last q before place i, 0 when there is none
PrecedingSave(objects, i) ==
    IF \E k \in 1..(i - 1) : objects[k] = Name("q")
    THEN CHOOSE k \in 1..(i - 1) :
             /\ objects[k] = Name("q")
             /\ \A m \in (k + 1)..(i - 1) : objects[m] # Name("q")
    ELSE 0

\* The BT at place i stands inside q re <clip> W n ... Q, one save deep
InsideClip(objects, i) ==
    /\ DepthAt(objects, i) = 1
    /\ PrecedingSave(objects, i) > 0
    /\ SubSeq(objects, PrecedingSave(objects, i) + 1,
              PrecedingSave(objects, i) + 4)[1] = Name("re")
    /\ Labelled(objects[PrecedingSave(objects, i) + 2], "clip")
    /\ objects[PrecedingSave(objects, i) + 3] = Name("W")
    /\ objects[PrecedingSave(objects, i) + 4] = Name("n")

\* q and Q are balanced and no q is opened inside another
SavesBalanced(objects) ==
    /\ DepthAt(objects, Len(objects)) = 0
    /\ \A i \in PlacesOf(objects, Name("q")) : DepthAt(objects, i) = 1
    /\ \A i \in PlacesOf(objects, Name("Q")) : DepthAt(objects, i) = 0

\* The places of the rectangles of the text clips
ClipPlaces(objects) ==
    {i \in 1..Len(objects) : Labelled(objects[i], "clip")}

\* The rectangles of the text clips of an object list, in order
ClipRectangles(objects) ==
    [k \in 1..Cardinality(ClipPlaces(objects)) |->
        objects[PlaceNo(ClipPlaces(objects), k)][3]]

\* The bounds (x, y - height, width, height) of cell j of row r of the table
\* drawn at Position
CellBounds(r, j) ==
    << FAdd(Position[1],
            FSum(SubSeq(layout.column_widths, 1,
                        StartingColumn(table.rows[r].cells, j)))),
       RowTop(layout, Position, AllRows(table), r) - layout.row_heights[r],
       EmittedWidth(r, j),
       layout.row_heights[r] >>

\* The bounds of the drawn cells of row r from cell j on
RECURSIVE RowBounds(_, _)
RowBounds(r, j) ==
    IF j > Len(table.rows[r].cells) \/ j \notin DrawnCells(r) THEN <<>>
    ELSE <<CellBounds(r, j)>> \o RowBounds(r, j + 1)

\* The bounds of all drawn cells, row after row
AllCellBounds == Concat([r \in 1..Len(table.rows) |-> RowBounds(r, 1)])

\* C23: in the stream of generate_table_operations and of draw_rows_subset
\* without a hook, every BT ... ET text block lies inside a bracket q, re, W,
\* n ... Q whose clip rectangle is the cell's bounds (x, y - height, width,
\* height); q and Q are balanced over the whole stream, the save depth never
\* exceeds 1 and is 0 after each cell.
C23_TextInsideCellClip ==
    ~hooked =>
        /\ \A stream \in Streams :
               /\ \A i \in PlacesOf(stream, Name("BT")) :
                      InsideClip(stream, i)
               /\ SavesBalanced(stream)
        /\ Generated => ClipRectangles(flat) = AllCellBounds

\* The overlay text of an image: its BT follows the Q of the overlay bar and
\* no save is open
C23_Witness ==
    /\ Generated /\ ~hooked
    /\ Len(table.rows[1].cells[1].images) = 1
    /\ table.rows[1].cells[1].images[1].overlay
    /\ registry.gstate_id # None
    /\ \E i \in PlacesOf(flat, Name("BT")) :
           /\ DepthAt(flat, i) = 0
           /\ flat[i - 1] = Name("Q")
           /\ Labelled(flat[i + 2], "overlay_text")
           /\ ~InsideClip(flat, i)

\* The BT at place i starts the text of an image overlay
OverlayTextAt(objects, i) ==
    /\ i + 2 <= Len(objects)
    /\ objects[i + 1] = Name("rg")
    /\ Labelled(objects[i + 2], "overlay_text")

\* The text of the cells lies inside the clip of the cell's bounds, the text
\* of an image overlay outside every save; q and Q are balanced and never
\* nested
C23_CellTextInsideCellClip ==
    ~hooked =>
        /\ \A stream \in Streams :
               /\ \A i \in PlacesOf(stream, Name("BT")) :
                      IF OverlayTextAt(stream, i)
                      THEN DepthAt(stream, i) = 0
                      ELSE InsideClip(stream, i)
               /\ SavesBalanced(stream)
        /\ Generated => ClipRectangles(flat) = AllCellBounds

\* The places of the operands of one kind of drawing in an object list
Places(objects, what) ==
    {i \in 1..Len(objects) : Labelled(objects[i], what)}

\* Every operand of the first kind stands before every one of the second
AllBefore(objects, first, second) ==
    \A i \in Places(objects, first) :
        \A j \in Places(objects, second) : i < j

\* The drawing of the rows and their cells
ContentKinds ==
    {"row_bg", "cell_bg", "clip", "text_position", "image_clip", "image",
     "overlay_bar", "overlay_text"}

\* The place of the first text clip after place i, 0 when there is none
NextClip(objects, i) ==
    IF \E c \in Places(objects, "clip") : c > i
    THEN CHOOSE c \in Places(objects, "clip") :
             c > i /\ \A d \in Places(objects, "clip") : d > i => c <= d
    ELSE 0

\* The place of the last text clip before place i, 0 when there is none
LastClip(objects, i) ==
    IF \E c \in Places(objects, "clip") : c < i
    THEN CHOOSE c \in Places(objects, "clip") :
             c < i /\ \A d \in Places(objects, "clip") : d < i => d <= c
    ELSE 0

\* The rectangle inner lies in the rectangle outer, over its whole height
WithinCell(inner, outer) ==
    /\ inner[2] = outer[2] /\ inner[4] = outer[4]
    /\ ~FLess(inner[1], outer[1])
    /\ ~FLess(FAdd(outer[1], outer[3]), FAdd(inner[1], inner[3]))

\* The table background comes first
BackgroundFirst(objects) ==
    \A what \in ContentKinds \cup {"grid", "cell_border"} :
        AllBefore(objects, "table_bg", what)

\* Within each cell the background fill precedes the text, which precedes
\* the images: a fill is followed by the text clip of the same rectangle,
\* an image clip follows the text clip of the cell it lies in
CellOrder(objects) ==
    /\ \A p \in Places(objects, "cell_bg") :
           Len(objects[p]) = 3 =>
               /\ NextClip(objects, p) > 0
               /\ objects[NextClip(objects, p)][3] = objects[p][3]
    /\ \A m \in Places(objects, "image_clip") :
           /\ LastClip(objects, m) > 0
           /\ WithinCell(objects[m][3], objects[LastClip(objects, m)][3])

\* The border grid follows the drawing of all rows
GridAfterContent(objects) ==
    \A what \in ContentKinds : AllBefore(objects, what, "grid")

\* The border overrides of the cells follow the drawing of all rows
OverridesAfterContent(objects) ==
    \A what \in ContentKinds : AllBefore(objects, what, "cell_border")

\* C21 as stated: in the instruction stream of a table (or of a page's row
\* subset), the table background comes first; within each cell the
\* background fill precedes the text, which precedes the images; and all
\* per-cell border-override strokes are emitted before the table/subset
\* border grid, which comes last.
C21_OverridesBeforeGrid ==
    \A stream \in Streams :
        /\ BackgroundFirst(stream)
        /\ CellOrder(stream)
        /\ OverridesAfterContent(stream)
        /\ AllBefore(stream, "cell_border", "grid")

\* C21, amended: the table background comes first; within each cell the
\* background fill precedes the text, which precedes the images; the
\* table/subset border grid follows the drawing of all rows, and all
\* per-cell border-override strokes are emitted after the grid and come
\* last.
C21_GridBeforeOverrides ==
    \A stream \in Streams :
        /\ BackgroundFirst(stream)
        /\ CellOrder(stream)
        /\ GridAfterContent(stream)
        /\ AllBefore(stream, "grid", "cell_border")

\* A table with a background, a cell with a fill and two images, a border
\* grid and a cell with a border of its own: the grid ends before the cell's
\* border starts
C21_Witness ==
    /\ Generated
    /\ table.style.background_color # None
    /\ table.style.border_style = "Solid"
    /\ table.rows[1].cells[1].background_color # None
    /\ Len(table.rows[1].cells[1].images) = 2
    /\ table.rows[1].cells[2].border = Some("Solid")
    /\ Labelled(flat[2 + (IF hooked THEN 3 ELSE 0)], "table_bg")
    /\ Places(flat, "cell_bg") # {}
    /\ Cardinality(Places(flat, "image_clip")) = 4
    /\ Places(flat, "grid") # {}
    /\ Places(flat, "cell_border") # {}
    /\ \E g \in Places(flat, "grid") :
           /\ \A i \in Places(flat, "grid") : i <= g
           /\ \A b \in Places(flat, "cell_border") : g < b
           /\ \E b \in Places(flat, "cell_border") :
                  \A i \in 1..Len(flat) :
                      i > b => ~(\E what \in ContentKinds \cup {"grid"} :
                                     Labelled(flat[i], what))

\* The places of the vertical strokes of the border grid in an object list:
\* each is m x y1 l x y2 with the same x
VerticalLinePlaces(objects) ==
    {i \in 1..(Len(objects) - 3) :
        /\ objects[i] = Name("m") /\ Labelled(objects[i + 1], "grid")
        /\ objects[i + 2] = Name("l") /\ Labelled(objects[i + 3], "grid")
        /\ objects[i + 1][3][1] = objects[i + 3][3][1]
        /\ objects[i + 1][3][2] # objects[i + 3][3][2]}

\* The vertical strokes of the border grid, in order, as (x, y1, y2)
VerticalLines(objects) ==
    [k \in 1..Cardinality(VerticalLinePlaces(objects)) |->
        <<objects[PlaceNo(VerticalLinePlaces(objects), k) + 1][3][1],
          objects[PlaceNo(VerticalLinePlaces(objects), k) + 1][3][2],
          objects[PlaceNo(VerticalLinePlaces(objects), k) + 3][3][2]>>]

\* The left edge of cell j of row r
CellLeft(r, j) ==
    FAdd(FInt(start_x),
         FSum(SubSeq(layout.column_widths, 1,
                     StartingColumn(table.rows[r].cells, j))))

\* One line from top to bottom of the row at the left edge of every drawn
\* cell of row r but the first
LinesAtCellEdges(r, top) ==
    [c \in 1..(Cardinality(DrawnCells(r)) - 1) |->
        <<CellLeft(r, c + 1), top, top - layout.row_heights[r]>>]

\* Those lines for the rows of row_indices drawn from y downwards
GridLinesAtCellEdges(row_indices, y) ==
    Concat([k \in 1..Len(row_indices) |->
              LinesAtCellEdges(row_indices[k] + 1,
                               RowTop(layout, <<FInt(start_x), y>>,
                                      row_indices, k))])

\* C22: in draw_table_borders, for every drawn row the vertical grid lines
\* spanning the row's top-to-bottom extent lie exactly at the left edges of
\* the row's cells other than the first: none at a column boundary inside a
\* colspanned cell, one at every boundary between two adjacent cells.
C22_VerticalLinesAtCellEdges ==
    table.style.border_style # "None" =>
        /\ Generated =>
               VerticalLines(flat)
                 = GridLinesAtCellEdges(AllRows(table), start_y)
        /\ op = "draw_table_paginated" =>
               \A k \in 1..Len(doc.contents) :
                   VerticalLines(doc.contents[k].objects)
                     = GridLinesAtCellEdges(doc.contents[k].rows,
                                            doc.contents[k].y)

\* Three columns, the first row's first cell spanning two of them and the
\* second row's second cell: one line per row, after the second column in
\* the first row and after the first column in the second
C22_Witness ==
    /\ Generated
    /\ table.style.border_style # "None"
    /\ Len(layout.column_widths) = 3
    /\ table.rows[1].cells[1].colspan = 2
    /\ table.rows[2].cells[2].colspan = 2
    /\ VerticalLines(flat)
         = << <<FAdd(FInt(start_x),
                     FAdd(layout.column_widths[1], layout.column_widths[2])),
                start_y, start_y - layout.row_heights[1]>>,
              <<FAdd(FInt(start_x), layout.column_widths[1]),
                start_y - layout.row_heights[1],
                start_y - layout.row_heights[1] - layout.row_heights[2]>> >>
    /\ FLess(FInt(0), layout.column_widths[2])

\* C29: when every row of a table fits on the starting page, the paginated
\* draw appends to that page the same instruction stream as the
\* non-paginated draw at the same position: draw_rows_subset over all row
\* indices produces the same backgrounds, cell content and border geometry
\* as generate_table_operations, and draw_table_borders in Subset mode with
\* all rows and the full height equals Full mode.
C29_OnePageAsNonPaginated ==
    /\ PaginatedDrawn /\ Len(page_ids) = 1 =>
           /\ Len(doc.contents) = 1
           /\ doc.contents[1].page = StartPage
           /\ doc.contents[1].rows = AllRows(table)
           /\ doc.contents[1].objects = flat
    /\ Generated =>
           /\ SubsetOperations(table, layout, AllRows(table), Position,
                               hooked, registry) = flat
           /\ DrawTableBorders(table, layout, Position,
                               Subset(layout.total_height),
                               Some(AllRows(table)))
                = DrawTableBorders(table, layout, Position, Full, None)
           /\ DrawSubsetBorders(table, layout, AllRows(table), Position)
                = DrawFullBorders(table, layout, Position)

\* A table with backgrounds, a border grid, a cell border and images drawn
\* on one page: the page's stream is the flat one
C29_Witness ==
    /\ PaginatedDrawn /\ Len(page_ids) = 1
    /\ table.style.background_color # None
    /\ table.style.border_style = "Solid"
    /\ table.rows[1].cells[2].border = Some("Solid")
    /\ Len(table.rows[1].cells[1].images) = 2
    /\ Len(doc.contents) = 1
    /\ doc.contents[1].objects = flat
    /\ Places(flat, "table_bg") # {}
    /\ Places(flat, "image_clip") # {}
    /\ Cardinality(VerticalLinePlaces(flat)) = 2

=============================================================================
